---- MODULE Spec2Model ----
(***************************************************************************)
(* The asynchronous indexing fabric of text_to_image_retriever: the tile   *)
(* registry (one sqlite table "tiles" shared by the registry service and   *)
(* the worker's repository adapter), the RabbitMQ work queue, the Victor   *)
(* scheduler, the manifest ingest, the embedder worker and the vector      *)
(* table adapter.                                                          *)
(*                                                                         *)
(* The worker runs with its default settings: table_name blank (one vector *)
(* table per embedder model), require_index_status_before_ack false, a     *)
(* tiles repository configured and reachable. One vectordb.upsert call is  *)
(* one step. A process crash and its restart are one step.                 *)
(***************************************************************************)
EXTENDS Integers, Sequences, FiniteSets, TLC

----------------------------------------------------------------------------
(* Bounds of the model *)

\* inputs and faults of one run: generator writes, manifest lines, process
\* crashes and vectordb.upsert calls that raise
MaxEvents == 3

----------------------------------------------------------------------------
(* Program constants and settings *)

\* EmbedderSettings.batch_size (default 64), set to a small value
BatchSize == 2
\* EmbedderSettings.rmq_prefetch_count (default 256), set to a small value
PrefetchCount == 3
\* VictorSettings.batch_size (default 1000), set to a small value
VictorBatchSize == 2

Workers == {"w1"}

\* Tiles 1 and 2 are two tiles of one strip image (same image_id, same
\* embedder model); tile 3 belongs to another image and another model.
Tiles == {1, 2, 3}

image_id(t) == IF t = 3 THEN 2 ELSE 1

embedder_model(t) == IF t = 3 THEN "m2" ELSE "m1"

\* TileStatus values and the strings the worker and the manifest ingest write
READY_FOR_INDEXING == "ready_for_indexing"
IN_PROCESS == "in_process"
WAITING_FOR_EMBEDDING == "waiting for embedding"
WAITING_FOR_INDEX == "waiting for index"
INDEXED == "indexed"
FAILED == "failed"
\* no row for the tile in the tiles table
NoRow == "no_row"

Statuses ==
    {READY_FOR_INDEXING, IN_PROCESS, WAITING_FOR_EMBEDDING, WAITING_FOR_INDEX,
     INDEXED, FAILED}

\* the values of the TileStatus enum, which the registry service accepts
TileStatus == {READY_FOR_INDEXING, IN_PROCESS, INDEXED, FAILED}

----------------------------------------------------------------------------
(* Message payloads *)

TileResponseFields ==
    {"tile_id", "gid", "sensor", "lon", "lat", "resolution", "tiles_size_meters",
     "image_path", "request_time", "imaging_time", "status", "embedder_model"}

IndexRequestFields ==
    {"image_id", "image_path", "width", "height", "tile_id", "gid", "raster_path",
     "bbox", "bands", "out_width", "out_height", "lat", "lon", "utm_zone",
     "run_id", "tile_store", "embedder_backend", "embedder_model"}

IndexRequestRequired == {"image_id", "width", "height"}

PayloadFields(m) ==
    IF m.schema = "TileResponse" THEN TileResponseFields ELSE IndexRequestFields

\* IndexRequest(**payload): pydantic raises when a required field is missing
IndexRequestValidates(m) == IndexRequestRequired \subseteq PayloadFields(m)

\* req.tile_id or "tile:<image_id>"; every payload here carries its tile_id
_tile_id_for_req(m) == m.tile_id

\* "tiles_" + the sanitized model name of the request
_resolve_table_name(m) == "tiles_" \o embedder_model(m.tile_id)

TableNames == {"tiles_m1", "tiles_m2"}

----------------------------------------------------------------------------
(* Sequence helpers *)

Range(s) == {s[i] : i \in 1..Len(s)}

RECURSIVE SubSeqAt(_, _, _)
\* the elements of s whose index is in keep, in order, from index i on
SubSeqAt(s, keep, i) ==
    IF i > Len(s) THEN <<>>
    ELSE (IF i \in keep THEN <<s[i]>> ELSE <<>>) \o SubSeqAt(s, keep, i + 1)

RECURSIVE SortedSeq(_)
\* the elements of a set of integers in ascending order (ORDER BY tile_id)
SortedSeq(S) ==
    IF S = {} THEN <<>>
    ELSE LET lo == CHOOSE x \in S : \A y \in S : x <= y
         IN  <<lo>> \o SortedSeq(S \ {lo})

----------------------------------------------------------------------------
VARIABLES
    status,        \* tiles table: tile_id -> status, or NoRow
    queue,         \* broker: messages ready for delivery, head first
    unacked,       \* broker: per consumer, delivered and not yet acked
    published,     \* messages published so far (also the next message id)
    tables,        \* vector tables: table name -> sequence of rows
    wpc,           \* worker: position in run / process_batch
    batch,         \* worker: batch of (IndexRequest, envelope)
    items,         \* worker: items of process_batch (loaded tiles)
    upserted,      \* worker: tables whose vectordb.upsert returned in this batch
    events,        \* inputs and faults so far
    schedPc,       \* scheduler: position in run_once
    schedTiles,    \* scheduler: tiles of the tick not yet processed
    ingest,        \* manifest ingest: tiles of the lines published so far
    claimOk,       \* scheduler: the IN_PROCESS write of the current tile returned
    registered,    \* history: generator writes per tile
    schedPublished,\* history: scheduler publishes per tile
    rejected,      \* history: messages whose IndexRequest validation raised
    crashedBatch,  \* history: messages batched and not yet upserted at a crash
    schedCrashes,  \* history: scheduler crashes
    regResp,       \* registry service: the last status request and its response
    embedder_queues, \* scheduler settings: the routing configuration string
    queue_config,  \* scheduler: the parsed routing configuration
    routed,        \* scheduler: the last embedder_model routed and its queue
    aps,           \* APScheduler: the job's running instances, fired and skipped runs
    run,           \* scheduler: the executions of run_once, per executor thread
    bus,           \* bus adapter: the configuration and position of a consume call
    broker,        \* RabbitMQ: ready messages per queue, deliveries not yet acked
    client,        \* bus adapter: deliveries, envelopes and the calls on them
    settings,      \* worker: EmbedderSettings
    index_failed,  \* worker: tables whose "indexed" write failed in the last batch
    wall,          \* time.time(), and history: when each tile was marked indexed
    sweep,         \* victor daemon: the last cleanup_expired_tiles call and its outcome
    lance,         \* LanceDB: table name -> Missing, or the dimension and rows
    vresp,         \* vector service and adapter: the last call and its response
    tiles_rows,    \* registry: the rows of the tiles table, in rowid order
    tiles_call,    \* registry: the last create_tile or upsert_tiles call and its result
    tile_keys,     \* tiler: two TileKeys
    tile_ids,      \* tiler: the tile ids and hashes of the two keys
    loads,         \* history: the batch of the last tile loads and its failed entries
    loop,          \* worker: settings, clock, batch and last step of the consume loop
    stop,          \* worker: the signal received, the batch pending at it and the exit
    fallback,      \* LanceDB adapter: the delete + add upsert in progress and the last read
    daemon         \* victor daemon: the publish_ready_tiles call in progress and its history

regVars == <<status>>
busVars == <<queue, unacked, published>>
workerVars == <<wpc, batch, items, upserted>>
schedVars == <<schedPc, schedTiles, claimOk>>
histVars == <<registered, schedPublished, rejected, crashedBatch, schedCrashes>>

\* the variables of the indexing fabric
coreVars ==
    <<status, queue, unacked, published, tables, wpc, batch, items, upserted,
      events, schedPc, schedTiles, ingest,
      claimOk, registered, schedPublished, rejected, crashedBatch, schedCrashes>>

\* the variables of the indexing fabric but the tiles table
fabricVars ==
    <<busVars, tables, workerVars, events, schedVars, ingest, histVars>>

\* the variables of the components that the indexing fabric runs beside
regAux == <<regResp>>
routeAux == <<embedder_queues, queue_config, routed>>
tickAux == <<aps, run>>
conAux == <<bus, broker, client>>
ackAux == <<settings, index_failed>>
sweepAux == <<wall, sweep>>
\* the components with a specification of their own
vecAux == <<lance, vresp>>
writeAux == <<tiles_rows, tiles_call>>
keyAux == <<tile_keys, tile_ids>>
loadAux == <<loads>>
loopAux == <<loop>>
lateAux == <<stop, fallback, daemon>>
restAux == <<sweepAux, vecAux, writeAux, keyAux, loadAux, loopAux, lateAux>>
auxVars == <<regAux, routeAux, tickAux, conAux, ackAux, restAux>>

\* what the registry service's requests leave alone
besideRegistry == <<fabricVars, routeAux, tickAux, conAux, ackAux, restAux>>
\* what the routing of the scheduler leaves alone
besideRouting == <<coreVars, regAux, tickAux, conAux, ackAux, restAux>>
\* what the ticks of the scheduler job leave alone
besideTick ==
    <<unacked, tables, workerVars, events, schedVars, ingest, histVars, regAux, routeAux,
      conAux, ackAux, restAux>>
\* what a consume call of the bus adapter leaves alone
besideConsumer == <<coreVars, regAux, routeAux, tickAux, ackAux, restAux>>
\* what a TTL sweep of the victor daemon leaves alone
besideSweep ==
    <<busVars, workerVars, events, schedVars, ingest, histVars, regAux, routeAux, tickAux,
      conAux, ackAux, vecAux, writeAux, keyAux, loadAux, loopAux, lateAux>>
\* what the calls of the vector service and adapter leave alone
besideVector ==
    <<coreVars, regAux, routeAux, tickAux, conAux, ackAux, sweepAux, writeAux, keyAux,
      loadAux, loopAux, lateAux>>
\* what the writes of tiles to the registry leave alone
besideWrites ==
    <<coreVars, regAux, routeAux, tickAux, conAux, ackAux, sweepAux, vecAux, keyAux,
      loadAux, loopAux, lateAux>>
\* what the building of tile ids leaves alone
besideKeys ==
    <<coreVars, regAux, routeAux, tickAux, conAux, ackAux, sweepAux, vecAux, writeAux,
      loadAux, loopAux, lateAux>>
\* what the tile loads of a batch leave alone, beside the indexing fabric
besideLoads ==
    <<regAux, routeAux, tickAux, conAux, ackAux, sweepAux, vecAux, writeAux, keyAux,
      loopAux, lateAux>>
\* what the consume loop with its clock leaves alone
besideLoop ==
    <<coreVars, regAux, routeAux, tickAux, conAux, ackAux, sweepAux, vecAux, writeAux,
      keyAux, loadAux, lateAux>>

vars == <<coreVars, auxVars>>


NoRequest == [op |-> "none"]

\* strings are sequences of characters
_DEFAULT_EMBEDDER_QUEUES == <<"a", "=", "p">>

Unparsed == [state |-> "unparsed"]
NoRoute == [state |-> "none"]

RegAuxInit == regResp = NoRequest

RouteAuxInit ==
    /\ embedder_queues = _DEFAULT_EMBEDDER_QUEUES
    /\ queue_config = Unparsed
    /\ routed = NoRoute

\* the threads of APScheduler's default executor that the model follows
Instances == {1, 2}

IdleRun ==
    [pc |-> "idle", tiles |-> <<>>, published_count |-> 0, result |-> 0,
     raised |-> FALSE, fetched |-> {}, processed |-> {}, ok |-> {}, marked |-> {}]

TickAuxInit ==
    /\ aps = [instances |-> 0, fired |-> 0, skipped |-> 0]
    /\ run = [i \in Instances |-> IdleRun]

\* a component that a specification does not follow is absent from its states
Absent == <<>>

TickAbsent ==
    /\ aps = Absent
    /\ run = Absent

\* queue names are strings of one character
QueueNames == {<<"x">>, <<"y">>}

\* EmbedderSettings and RmqConfig: style, queue_names, prefetch_count
NewBus(style, queue_names, prefetch_count) ==
    [style |-> style, queue |-> queue_names, prefetch_count |-> prefetch_count,
     pc |-> "init", error |-> "none", open |-> FALSE, queues |-> <<>>, qos |-> 0]

NewBroker(ready) == [ready |-> ready, unacked |-> <<>>, taken |-> <<>>]

NewClient ==
    [arrived |-> <<>>, pending |-> <<>>, held |-> {}, yielded |-> "nothing",
     calls |-> 0, raised |-> FALSE]

ConAbsent ==
    /\ bus = Absent
    /\ broker = Absent
    /\ client = Absent

\* EmbedderSettings with the defaults; update_tile_statuses is true
DefaultSettings == [require_index_status_before_ack |-> FALSE]

AckAuxInit ==
    /\ settings = DefaultSettings
    /\ index_failed = {}

SweepAbsent ==
    /\ wall = Absent
    /\ sweep = Absent

VecAbsent ==
    /\ lance = Absent
    /\ vresp = Absent

WriteAbsent ==
    /\ tiles_rows = Absent
    /\ tiles_call = Absent

KeyAbsent ==
    /\ tile_keys = Absent
    /\ tile_ids = Absent

LoadAbsent == loads = Absent

LoopAbsent == loop = Absent

StopAbsent == stop = Absent

FallbackAbsent == fallback = Absent

DaemonAbsent == daemon = Absent

LateAbsent == StopAbsent /\ FallbackAbsent /\ DaemonAbsent

RestAbsent ==
    /\ SweepAbsent /\ VecAbsent /\ WriteAbsent /\ KeyAbsent /\ LoadAbsent /\ LoopAbsent
    /\ LateAbsent

AuxInit ==
    /\ RegAuxInit
    /\ RouteAuxInit
    /\ TickAbsent
    /\ ConAbsent
    /\ AckAuxInit
    /\ RestAbsent

FabricInit ==
    /\ queue = <<>>
    /\ unacked = [w \in Workers |-> <<>>]
    /\ published = 0
    /\ tables = [n \in TableNames |-> <<>>]
    /\ wpc = [w \in Workers |-> "consume"]
    /\ batch = [w \in Workers |-> <<>>]
    /\ items = [w \in Workers |-> <<>>]
    /\ upserted = [w \in Workers |-> {}]
    /\ events = 0
    /\ schedPc = "idle"
    /\ schedTiles = <<>>
    /\ ingest = {}
    /\ claimOk = FALSE
    /\ registered = [t \in Tiles |-> 0]
    /\ schedPublished = [t \in Tiles |-> 0]
    /\ rejected = {}
    /\ crashedBatch = {}
    /\ schedCrashes = 0

CoreInit ==
    /\ status = [t \in Tiles |-> NoRow]
    /\ FabricInit

Init == CoreInit /\ AuxInit

----------------------------------------------------------------------------
(* Tile registry *)

\* SqliteTilesRepositoryService.create_tile with no "status" key in tile_data:
\* INSERT ... ON CONFLICT(tile_id) DO UPDATE SET status = excluded.status
create_tile(st, t) == [st EXCEPT ![t] = READY_FOR_INDEXING]

\* SqliteTilesRepositoryService.update_status -> update_tile: None for a
\* missing tile, else an unconditional UPDATE of the status column
ServiceUpdateStatus(st, t, s) ==
    IF st[t] = NoRow THEN st ELSE [st EXCEPT ![t] = s]

\* SqliteTilesRepository.update_status: UPDATE tiles SET status = ? WHERE tile_id = ?
update_status(st, ids, s) ==
    [t \in Tiles |-> IF t \in ids /\ st[t] # NoRow THEN s ELSE st[t]]

\* SqliteTilesRepository.upsert_tiles: insert, or overwrite every column
upsert_tiles(st, ids, s) ==
    [t \in Tiles |-> IF t \in ids THEN s ELSE st[t]]

\* SqliteTilesRepositoryService.list_tiles(status, limit, offset = 0)
list_tiles(st, s, limit) ==
    LET all == SortedSeq({t \in Tiles : st[t] = s})
    IN  SubSeq(all, 1, IF Len(all) < limit THEN Len(all) ELSE limit)

\* SqliteTilesRepositoryService.batch_update_status:
\* UPDATE tiles SET status = ? WHERE tile_id IN (...); returns cur.rowcount
batch_update_status(st, ids, s) ==
    [t \in Tiles |-> IF t \in ids /\ st[t] # NoRow THEN s ELSE st[t]]

\* POST /tiles: create_tile of the registry service
RegCreateTile(t) ==
    /\ status' = create_tile(status, t)
    /\ regResp' = [op |-> "create_tile", tile_ids |-> {t},
                   status |-> READY_FOR_INDEXING, result |-> "ok"]
    /\ UNCHANGED besideRegistry

\* POST /tiles/{tile_id}/status: update_tile_status; 404 for a missing tile
update_tile_status(t, s) ==
    /\ status' = ServiceUpdateStatus(status, t, s)
    /\ regResp' = [op |-> "update_status", tile_ids |-> {t}, status |-> s,
                   result |-> IF status[t] = NoRow THEN "404" ELSE "ok"]
    /\ UNCHANGED besideRegistry

\* POST /tiles/batch/status: batch_update_status
RegBatchUpdateStatus(ids, s) ==
    /\ status' = batch_update_status(status, ids, s)
    /\ regResp' = [op |-> "batch_update_status", tile_ids |-> ids, status |-> s,
                   result |-> "ok"]
    /\ UNCHANGED besideRegistry

RegistryNext ==
    \/ \E t \in Tiles : RegCreateTile(t)
    \/ \E t \in Tiles, s \in TileStatus : update_tile_status(t, s)
    \/ \E ids \in SUBSET Tiles, s \in TileStatus : RegBatchUpdateStatus(ids, s)

\* the registry service alone, driven by its clients' requests
RegistrySpec == Init /\ [][RegistryNext]_vars

\* the columns of the tiles table, derived from the fields of TileResponse
TILE_DB_COLUMNS ==
    {"tile_id", "gid", "sensor", "lon", "lat", "resolution", "tiles_size_meters",
     "image_path", "request_time", "imaging_time", "status", "embedder_model"}

\* _fetch_row(tile_id).get(col) for a tile with a row: {} for None, {v} for
\* the value v; the model keeps tile_id, status and embedder_model
RowColumn(st, t, col) ==
    IF col \notin TILE_DB_COLUMNS THEN {}
    ELSE IF col = "tile_id" THEN {t}
    ELSE IF col = "status" THEN {st[t]}
    ELSE IF col = "embedder_model" THEN {embedder_model(t)}
    ELSE {}

----------------------------------------------------------------------------
(* Queue routing of the scheduler *)

MaxMappings == 2
MaxModelLen == 3

_CONFIG_DELIMITER == ","
_MAPPING_SEPARATOR == "="
_MODEL_SEPARATOR == ":"
_DEFAULT_QUEUE_NAME == <<"d">>

\* str.strip()
RECURSIVE strip(_)
strip(s) ==
    IF s = <<>> THEN s
    ELSE IF Head(s) = " " THEN strip(Tail(s))
    ELSE IF s[Len(s)] = " " THEN strip(SubSeq(s, 1, Len(s) - 1))
    ELSE s

\* c in s
Contains(s, c) == \E i \in 1..Len(s) : s[i] = c

\* s.index(c), for a string that contains c
IndexOf(s, c) == CHOOSE i \in 1..Len(s) : s[i] = c /\ \A j \in 1..(i - 1) : s[j] # c

\* s.split(c, 1), for a string that contains c
split1(s, c) == <<SubSeq(s, 1, IndexOf(s, c) - 1), SubSeq(s, IndexOf(s, c) + 1, Len(s))>>

\* s.split(c)
RECURSIVE split(_, _)
split(s, c) ==
    IF Contains(s, c)
    THEN <<split1(s, c)[1]>> \o split(split1(s, c)[2], c)
    ELSE <<s>>

\* d[k] = v
Put(d, k, v) == [x \in (DOMAIN d) \cup {k} |-> IF x = k THEN v ELSE d[x]]

EmptyQueues ==
    [default_queue |-> _DEFAULT_QUEUE_NAME, by_backend |-> <<>>, by_backend_model |-> <<>>]

\* one pass of the loop of _parse_embedder_queues over a mapping
ParseMapping(acc, raw_mapping) ==
    LET mapping == strip(raw_mapping) IN
    IF mapping = <<>> THEN acc
    ELSE IF ~Contains(mapping, _MAPPING_SEPARATOR) THEN acc
    ELSE
      LET backend_spec == strip(split1(mapping, _MAPPING_SEPARATOR)[1])
          q == strip(split1(mapping, _MAPPING_SEPARATOR)[2])
      IN
      IF backend_spec = <<>> \/ q = <<>> THEN acc
      ELSE IF Contains(backend_spec, _MODEL_SEPARATOR)
      THEN
        LET backend == strip(split1(backend_spec, _MODEL_SEPARATOR)[1])
            model == strip(split1(backend_spec, _MODEL_SEPARATOR)[2])
        IN
        IF backend = <<>> \/ model = <<>> THEN acc
        ELSE [acc EXCEPT !.by_backend_model = Put(@, <<backend, model>>, q)]
      ELSE
        LET by_backend == Put(acc.by_backend, backend_spec, q) IN
        [acc EXCEPT !.by_backend = by_backend,
                    !.default_queue =
                        IF Cardinality(DOMAIN by_backend) = 1 THEN q ELSE @]

RECURSIVE ParseMappings(_, _)
ParseMappings(acc, mappings) ==
    IF mappings = <<>> THEN acc
    ELSE ParseMappings(ParseMapping(acc, Head(mappings)), Tail(mappings))

_parse_embedder_queues(raw) ==
    LET parsed == ParseMappings(EmptyQueues, split(raw, _CONFIG_DELIMITER)) IN
    IF DOMAIN parsed.by_backend = {} /\ DOMAIN parsed.by_backend_model = {}
    THEN [state |-> "ValueError"]
    ELSE [state |-> "ok",
          default_queue |-> parsed.default_queue,
          by_backend |-> parsed.by_backend,
          by_backend_model |-> parsed.by_backend_model]

\* dict.get(k), {} for None
Get(d, k) == IF k \in DOMAIN d THEN {d[k]} ELSE {}

\* an Optional[str] is {} for None and {s} for the string s
\* EmbedderQueues.get_queue
get_queue(cfg, embedder_model_opt) ==
    IF embedder_model_opt = {} THEN cfg.default_queue
    ELSE
      LET given == CHOOSE x \in embedder_model_opt : TRUE
          em == strip(given)
          exact ==
              IF Contains(em, _MODEL_SEPARATOR)
              THEN Get(cfg.by_backend_model,
                       <<strip(split1(em, _MODEL_SEPARATOR)[1]),
                         strip(split1(em, _MODEL_SEPARATOR)[2])>>)
              ELSE {}
      IN
      IF given = <<>> \/ em = <<>> THEN cfg.default_queue
      ELSE IF exact # {} THEN CHOOSE x \in exact : TRUE
      ELSE IF Get(cfg.by_backend, em) # {} THEN cfg.by_backend[em]
      ELSE cfg.default_queue

\* the mappings the configuration strings are made of
Mappings ==
    { <<>>,
      <<"a", "=", "p">>,
      <<"a", "=", "q">>,
      <<"b", "=", "q">>,
      <<"a", ":", "m", "=", "q">>,
      <<" ", "b", " ", "=", "p", " ">>,
      <<"a">>,
      <<"a", ":", "=", "p">> }

RECURSIVE Join(_)
Join(ms) ==
    IF Len(ms) = 1 THEN ms[1]
    ELSE ms[1] \o <<_CONFIG_DELIMITER>> \o Join(Tail(ms))

RawConfigs ==
    {Join(ms) : ms \in UNION {[1..n -> Mappings] : n \in 1..MaxMappings}}

ModelChars == {"a", "b", "m", ":", " "}

EmbedderModels ==
    {{}} \cup {{em} : em \in UNION {[1..n -> ModelChars] : n \in 0..MaxModelLen}}

RoutingInit ==
    /\ CoreInit
    /\ RegAuxInit
    /\ TickAbsent
    /\ ConAbsent
    /\ AckAuxInit
    /\ RestAbsent
    /\ embedder_queues \in RawConfigs
    /\ queue_config = Unparsed
    /\ routed = NoRoute

\* VictorScheduler.__init__: parse the routing configuration
ParseQueues ==
    /\ queue_config = Unparsed
    /\ queue_config' = _parse_embedder_queues(embedder_queues)
    /\ UNCHANGED <<embedder_queues, routed>>
    /\ UNCHANGED besideRouting

\* _process_single_tile: the queue of a tile's embedder_model
RouteTile(em) ==
    /\ queue_config.state = "ok"
    /\ routed' = [state |-> "routed", embedder_model |-> em,
                  queue |-> get_queue(queue_config, em)]
    /\ UNCHANGED <<embedder_queues, queue_config>>
    /\ UNCHANGED besideRouting

RoutingNext ==
    \/ ParseQueues
    \/ \E em \in EmbedderModels : RouteTile(em)

RoutingSpec == RoutingInit /\ [][RoutingNext]_vars

----------------------------------------------------------------------------
(* Message bus *)

Message(n, t, schema) == [id |-> n, tile_id |-> t, schema |-> schema]

\* basic_publish to the durable queue
publish(q, m) == Append(q, m)

\* basic_ack of the deliveries ms
AckEnvelopes(u, ms) == SelectSeq(u, LAMBDA m : m \notin ms)

\* the broker returns the unacked deliveries of a closed connection to the queue
Requeue(q, u) == u \o q

----------------------------------------------------------------------------
(* Vector index adapter *)

Row(m) ==
    [image_id |-> image_id(m.tile_id), tile_id |-> m.tile_id, run |-> m.id]

\* LanceDBAdapter.upsert_rows with id_col = "image_id": merge_insert
\* (matched rows replaced, unmatched rows inserted) or delete-where-in + add
upsert_rows(tbl, rows) ==
    LET ids == {rows[i].image_id : i \in 1..Len(rows)}
    IN  SelectSeq(tbl, LAMBDA r : r.image_id \notin ids) \o rows

----------------------------------------------------------------------------
(* Generator and manifest ingest *)

\* a tile generator registers tile t through the registry service
GeneratorWrite(t) ==
    /\ events < MaxEvents
    /\ events' = events + 1
    /\ status' = create_tile(status, t)
    /\ registered' = [registered EXCEPT ![t] = @ + 1]
    /\ UNCHANGED <<busVars, tables, workerVars, schedVars, ingest,
                   schedPublished, rejected, crashedBatch, schedCrashes>>
    /\ UNCHANGED auxVars

\* VectorManager.ingest_manifest, one manifest line: publish the IndexRequest
IngestPublish(t) ==
    /\ events < MaxEvents
    /\ events' = events + 1
    /\ queue' = publish(queue, Message(published + 1, t, "IndexRequest"))
    /\ published' = published + 1
    /\ ingest' = ingest \cup {t}
    /\ UNCHANGED <<status, unacked, tables, workerVars, schedVars, histVars>>
    /\ UNCHANGED auxVars

\* VectorManager.ingest_manifest, after the last line: upsert_tiles(tiles)
IngestUpsert ==
    /\ ingest # {}
    /\ status' = upsert_tiles(status, ingest, WAITING_FOR_EMBEDDING)
    /\ ingest' = {}
    /\ UNCHANGED <<busVars, tables, workerVars, events,
                   schedVars, histVars>>
    /\ UNCHANGED auxVars

----------------------------------------------------------------------------
(* Victor scheduler *)

\* VictorScheduler._mark_tile_failed: best effort, an error is logged
_mark_tile_failed(st, t, ok) ==
    IF ok THEN ServiceUpdateStatus(st, t, FAILED) ELSE st

\* the tick goes on with the next tile of the for loop, or returns
SchedAdvance ==
    /\ schedTiles' = Tail(schedTiles)
    /\ schedPc' = IF Tail(schedTiles) = <<>> THEN "idle" ELSE "claim"
    /\ claimOk' = FALSE

\* run_once: _fetch_ready_tiles; no ready tile ends the tick
SchedFetch ==
    /\ schedPc = "idle"
    /\ LET ready == list_tiles(status, READY_FOR_INDEXING, VictorBatchSize)
       IN  /\ ready # <<>>
           /\ schedTiles' = ready
           /\ schedPc' = "claim"
    /\ UNCHANGED <<status, busVars, tables, workerVars, events, ingest, claimOk, histVars>>
    /\ UNCHANGED auxVars

\* SchedClaim with the error of the status write swallowed: the tile is
\* published although the write failed
SchedClaimIgnoresFailure ==
    /\ schedPc = "claim"
    /\ \/ /\ status' = ServiceUpdateStatus(status, Head(schedTiles), IN_PROCESS)
          /\ claimOk' = TRUE
       \/ /\ claimOk' = FALSE
          /\ UNCHANGED status
    /\ schedPc' = "publish"
    /\ UNCHANGED <<schedTiles, busVars, tables, workerVars, events, ingest, histVars>>
    /\ UNCHANGED auxVars

\* SchedClaim with the transition moved after the publish: the tile is
\* published while it is still READY_FOR_INDEXING
SchedClaimAfterPublish ==
    /\ schedPc = "claim"
    /\ claimOk' = TRUE
    /\ schedPc' = "publish"
    /\ UNCHANGED <<status, schedTiles, busVars, tables, workerVars, events, ingest,
                   histVars>>
    /\ UNCHANGED auxVars

\* _process_single_tile: update_status(tile_id, IN_PROCESS); when it raises,
\* _process_tiles marks the tile failed and goes on
SchedClaim ==
    /\ schedPc = "claim"
    /\ LET t == Head(schedTiles)
       IN  \/ /\ status[t] # NoRow
              /\ status' = ServiceUpdateStatus(status, t, IN_PROCESS)
              /\ claimOk' = TRUE
              /\ schedPc' = "publish"
              /\ UNCHANGED schedTiles
           \/ /\ \E ok \in BOOLEAN : status' = _mark_tile_failed(status, t, ok)
              /\ SchedAdvance
    /\ UNCHANGED <<busVars, tables, workerVars, events, ingest, histVars>>
    /\ UNCHANGED auxVars

\* _process_single_tile: message_bus.publish(queue, tile.model_dump()); it
\* returns, or raises before or after the broker took the message
SchedPublish ==
    /\ schedPc = "publish"
    /\ LET t == Head(schedTiles)
           m == Message(published + 1, t, "TileResponse")
       IN  \/ /\ queue' = publish(queue, m)
              /\ published' = published + 1
              /\ schedPublished' = [schedPublished EXCEPT ![t] = @ + 1]
              /\ \/ SchedAdvance
                 \/ /\ schedPc' = "failed"
                    /\ UNCHANGED <<schedTiles, claimOk>>
           \/ /\ schedPc' = "failed"
              /\ UNCHANGED <<queue, published, schedPublished, schedTiles, claimOk>>
    /\ UNCHANGED <<status, unacked, tables, workerVars, events, ingest, registered,
                   rejected, crashedBatch, schedCrashes>>
    /\ UNCHANGED auxVars

\* _process_tiles: "except Exception" around _process_single_tile when the
\* publish raised: _mark_tile_failed, then the next tile
SchedMarkFailed ==
    /\ schedPc = "failed"
    /\ \E ok \in BOOLEAN : status' = _mark_tile_failed(status, Head(schedTiles), ok)
    /\ SchedAdvance
    /\ UNCHANGED <<busVars, tables, workerVars, events, ingest, histVars>>
    /\ UNCHANGED auxVars

\* the scheduler process dies inside a tick and is started again
SchedCrash ==
    /\ schedPc # "idle"
    /\ events < MaxEvents
    /\ events' = events + 1
    /\ schedPc' = "idle"
    /\ schedTiles' = <<>>
    /\ claimOk' = FALSE
    /\ schedCrashes' = schedCrashes + 1
    /\ UNCHANGED <<status, busVars, tables, workerVars, ingest, registered,
                   schedPublished, rejected, crashedBatch>>
    /\ UNCHANGED auxVars

----------------------------------------------------------------------------
(* The scheduler job under APScheduler *)

\* fires of the interval trigger in one run
MaxTicks == 3

_MAX_JOB_INSTANCES == 1

Running == {i \in Instances : run[i].pc # "idle"}

\* the thread that takes the next submitted run
FreeThread == CHOOSE i \in Instances \ Running : \A j \in Instances \ Running : i <= j

\* the interval trigger fires and every run is submitted, whatever is running
TickFireUnguarded ==
    /\ aps.fired < MaxTicks
    /\ Running # Instances
    /\ aps' = [aps EXCEPT !.fired = @ + 1, !.instances = @ + 1]
    /\ run' = [run EXCEPT ![FreeThread] = [IdleRun EXCEPT !.pc = "fetch"]]
    /\ UNCHANGED <<status, queue, published>>
    /\ UNCHANGED besideTick

\* add_job(run_once, "interval", max_instances=1): the trigger fires; the
\* executor runs the job unless max_instances runs of it are going on, and
\* then the run is skipped
TickFire ==
    /\ aps.fired < MaxTicks
    /\ IF aps.instances < _MAX_JOB_INSTANCES
       THEN /\ aps' = [aps EXCEPT !.fired = @ + 1, !.instances = @ + 1]
            /\ run' = [run EXCEPT ![FreeThread] = [IdleRun EXCEPT !.pc = "fetch"]]
       ELSE /\ aps' = [aps EXCEPT !.fired = @ + 1, !.skipped = @ + 1]
            /\ UNCHANGED run
    /\ UNCHANGED <<status, queue, published>>
    /\ UNCHANGED besideTick

\* run_once: _fetch_ready_tiles; it raises or finds no tile and run_once
\* returns 0, or the tiles go to _process_tiles
RunFetch(i) ==
    /\ run[i].pc = "fetch"
    /\ LET ready == list_tiles(status, READY_FOR_INDEXING, VictorBatchSize)
       IN  \/ run' = [run EXCEPT ![i].pc = "returned", ![i].result = 0]
           \/ /\ ready # <<>>
              /\ run' = [run EXCEPT ![i].pc = "process", ![i].tiles = ready,
                                    ![i].fetched = Range(ready)]
    /\ UNCHANGED <<status, queue, published, aps>>
    /\ UNCHANGED besideTick

\* the end of an iteration of the for loop of _process_tiles: the next tile,
\* or the return of run_once
NextTile(r) ==
    IF Tail(r.tiles) = <<>>
    THEN [r EXCEPT !.tiles = <<>>, !.pc = "returned", !.result = r.published_count]
    ELSE [r EXCEPT !.tiles = Tail(r.tiles)]

\* the iteration of _process_tiles without the except clause: the error
\* of the tile ends the tick
TileFailedRaises(i, t, st, ok) ==
    /\ status' = st
    /\ run' = [run EXCEPT ![i] = [run[i] EXCEPT !.pc = "returned", !.raised = TRUE,
                                                !.processed = @ \cup {t}]]

\* _process_tiles: "except Exception": _mark_tile_failed, which swallows its
\* own error, then the next tile
TileFailed(i, t, st, ok) ==
    /\ status' = _mark_tile_failed(st, t, ok)
    /\ run' = [run EXCEPT ![i] = NextTile([run[i] EXCEPT !.processed = @ \cup {t},
                                                         !.marked = @ \cup {t}])]

\* one iteration of _process_tiles: _process_single_tile writes IN_PROCESS and
\* publishes; either call may raise, the publish before or after the broker
\* took the message
RunTile(i) ==
    /\ run[i].pc = "process"
    /\ LET t == Head(run[i].tiles)
           claimed == ServiceUpdateStatus(status, t, IN_PROCESS)
           m == Message(published + 1, t, "TileResponse")
       IN  \/ /\ status[t] # NoRow
              /\ status' = claimed
              /\ queue' = publish(queue, m)
              /\ published' = published + 1
              /\ run' = [run EXCEPT ![i] =
                            NextTile([run[i] EXCEPT !.processed = @ \cup {t},
                                                    !.ok = @ \cup {t},
                                                    !.published_count = @ + 1])]
           \/ /\ \E ok \in BOOLEAN : TileFailed(i, t, status, ok)
              /\ UNCHANGED <<queue, published>>
           \/ /\ status[t] # NoRow
              /\ \E ok \in BOOLEAN : TileFailed(i, t, claimed, ok)
              /\ \/ UNCHANGED <<queue, published>>
                 \/ /\ queue' = publish(queue, m)
                    /\ published' = published + 1
    /\ UNCHANGED aps
    /\ UNCHANGED besideTick

\* the executor's callback when run_once has returned: the instance is released
RunReturn(i) ==
    /\ run[i].pc = "returned"
    /\ run' = [run EXCEPT ![i].pc = "idle"]
    /\ aps' = [aps EXCEPT !.instances = @ - 1]
    /\ UNCHANGED <<status, queue, published>>
    /\ UNCHANGED besideTick

\* the tiles the generator has registered when the scheduler starts
TickInit ==
    /\ status \in [Tiles -> {READY_FOR_INDEXING, INDEXED}]
    /\ FabricInit
    /\ RegAuxInit
    /\ RouteAuxInit
    /\ TickAuxInit
    /\ ConAbsent
    /\ AckAuxInit
    /\ RestAbsent

TickNext ==
    \/ TickFire
    \/ \E i \in Instances : RunFetch(i)
    \/ \E i \in Instances : RunTile(i)
    \/ \E i \in Instances : RunReturn(i)

TickSpec == TickInit /\ [][TickNext]_vars

----------------------------------------------------------------------------
(* The RabbitMQ bus adapters: consume in the callback and the polling style *)

MaxPrefetch == 2
MaxQueued == 2

\* [name.strip() for name in queue.split(",") if name.strip()]
consume_queues(queue_names) ==
    LET parts == split(queue_names, _CONFIG_DELIMITER) IN
    SelectSeq([i \in 1..Len(parts) |-> strip(parts[i])], LAMBDA n : n # <<>>)

\* channel.basic_qos is not called: no limit on the channel
QosUnset(prefetch) == 0

\* if prefetch > 0: channel.basic_qos(prefetch_count=prefetch); 0 is no limit
Qos(prefetch) == IF prefetch > 0 THEN prefetch ELSE 0

\* the envelope of the callback adapter: MessageEnvelope(payload, ack)
CallbackEnvelope(m) == [payload |-> m, ops |-> {"ack"}]

\* the messages of queue q when consume starts
Queued(q, n) == [i \in 1..n |-> [queue |-> q, n |-> i]]

Messages == {[queue |-> q, n |-> i] : q \in QueueNames, i \in 1..MaxQueued}

\* the envelopes a consumer may hold
Envelopes == {CallbackEnvelope(m) : m \in Messages}

\* the broker puts back the deliveries of a closed channel, ahead of the rest
RequeueAll(ready, unackedMsgs) ==
    [q \in QueueNames |-> SelectSeq(unackedMsgs, LAMBDA m : m.queue = q) \o ready[q]]

\* consume: the queue names, the connection and the qos of the channel
ConsumeStart ==
    /\ bus.pc = "init"
    /\ LET queues == consume_queues(bus.queue) IN
       IF queues = <<>>
       THEN bus' = [bus EXCEPT !.pc = "raised", !.error = "ValueError"]
       ELSE bus' = [bus EXCEPT !.pc = "consuming", !.open = TRUE, !.queues = queues,
                               !.qos = Qos(bus.prefetch_count)]
    /\ UNCHANGED <<broker, client>>
    /\ UNCHANGED besideConsumer

\* the queue has a consumer on the channel: basic_consume of the callback
\* style on every queue, channel.consume of the polling style on its one queue
HasConsumer(q) ==
    /\ q \in Range(bus.queues)
    /\ bus.style = "callback" \/ Len(bus.queues) = 1

\* RabbitMQ pushes the head of a queue to its consumer, within the qos of
\* the channel
BrokerDeliver(q) ==
    /\ bus.pc = "consuming"
    /\ bus.open
    /\ HasConsumer(q)
    /\ broker.ready[q] # <<>>
    /\ bus.qos = 0 \/ Len(broker.unacked) < bus.qos
    /\ LET m == Head(broker.ready[q]) IN
       /\ broker' = [broker EXCEPT !.ready[q] = Tail(@),
                                   !.unacked = Append(@, m),
                                   !.taken = Append(@, q)]
       /\ client' = [client EXCEPT !.arrived = Append(@, m)]
    /\ UNCHANGED bus
    /\ UNCHANGED besideConsumer

\* the generator of the callback style is resumed: the next pending
\* envelope, or process_data_events runs _on_message on what arrived and the
\* first envelope is yielded, or None
CallbackNext ==
    /\ bus.style = "callback"
    /\ bus.pc = "consuming"
    /\ bus.open
    /\ LET pending ==
              IF client.pending # <<>> THEN client.pending
              ELSE [i \in 1..Len(client.arrived) |-> CallbackEnvelope(client.arrived[i])]
           arrived == IF client.pending # <<>> THEN client.arrived ELSE <<>>
       IN  IF pending = <<>>
           THEN client' = [client EXCEPT !.yielded = "None"]
           ELSE client' = [client EXCEPT !.arrived = arrived,
                                         !.pending = Tail(pending),
                                         !.held = @ \cup {Head(pending)},
                                         !.yielded = "envelope"]
    /\ UNCHANGED <<bus, broker>>
    /\ UNCHANGED besideConsumer

\* the listed queues with a ready message, in the listed order
ReadyQueues == SelectSeq(bus.queues, LAMBDA q : broker.ready[q] # <<>>)

\* the generator of the polling style is resumed. One queue: channel.consume
\* gives the next delivery, or None. Several queues: one pass of basic_get
\* over the queues in the listed order up to the first message, or None after
\* an empty pass. MessageEnvelope has the fields payload and ack, so
\* MessageEnvelope(payload, ack, nack) raises TypeError for the first message;
\* the finally clause closes the connection and the broker puts the
\* deliveries back
PollingNext ==
    /\ bus.style = "polling"
    /\ bus.pc = "consuming"
    /\ bus.open
    /\ LET got == IF Len(bus.queues) = 1 THEN client.arrived # <<>>
                  ELSE ReadyQueues # <<>>
           taken == IF Len(bus.queues) = 1 THEN broker.taken
                    ELSE Append(broker.taken, Head(ReadyQueues))
       IN  IF ~got
           THEN /\ client' = [client EXCEPT !.yielded = "None"]
                /\ UNCHANGED <<bus, broker>>
           ELSE /\ bus' = [bus EXCEPT !.pc = "raised", !.error = "TypeError",
                                      !.open = FALSE]
                /\ broker' = [broker EXCEPT !.ready = RequeueAll(broker.ready, broker.unacked),
                                            !.unacked = <<>>,
                                            !.taken = taken]
                /\ client' = [client EXCEPT !.arrived = <<>>]
    /\ UNCHANGED besideConsumer

\* envelope.ack(): nothing when the channel or the connection is closed,
\* basic_ack otherwise
CallAck(e) ==
    /\ e \in client.held
    /\ client' = [client EXCEPT !.held = @ \ {e}, !.calls = @ + 1, !.raised = FALSE]
    /\ broker' = IF bus.open
                 THEN [broker EXCEPT !.unacked = SelectSeq(@, LAMBDA m : m # e.payload)]
                 ELSE broker
    /\ UNCHANGED bus
    /\ UNCHANGED besideConsumer

\* envelope.nack(requeue): AttributeError when the envelope has no nack
CallNack(e) ==
    /\ e \in client.held
    /\ client' = [client EXCEPT !.held = @ \ {e}, !.calls = @ + 1,
                                !.raised = "nack" \notin e.ops]
    /\ broker' = IF bus.open /\ "nack" \in e.ops
                 THEN [broker EXCEPT !.unacked = SelectSeq(@, LAMBDA m : m # e.payload),
                                     !.ready = RequeueAll(@, <<e.payload>>)]
                 ELSE broker
    /\ UNCHANGED bus
    /\ UNCHANGED besideConsumer

\* the connection is lost, or the consumer closes the generator: the broker
\* puts the deliveries back
ConnClose ==
    /\ bus.pc = "consuming"
    /\ bus' = [bus EXCEPT !.pc = "closed", !.open = FALSE]
    /\ broker' = [broker EXCEPT !.ready = RequeueAll(broker.ready, broker.unacked),
                                !.unacked = <<>>]
    /\ client' = [client EXCEPT !.arrived = <<>>, !.pending = <<>>]
    /\ UNCHANGED besideConsumer

QueueArgs ==
    { <<"x">>, <<"x", ",", "y">>, <<" ", "y", ",", ",", "x", " ">>, <<" ", ",">> }

ConsumerInit ==
    /\ CoreInit
    /\ RegAuxInit
    /\ RouteAuxInit
    /\ TickAbsent
    /\ AckAuxInit
    /\ RestAbsent
    /\ \E style \in {"callback", "polling"}, queue_names \in QueueArgs,
          prefetch_count \in 0..MaxPrefetch :
          bus = NewBus(style, queue_names, prefetch_count)
    /\ \E n \in [QueueNames -> 0..MaxQueued] :
          broker = NewBroker([q \in QueueNames |-> Queued(q, n[q])])
    /\ client = NewClient

ConsumerNext ==
    \/ ConsumeStart
    \/ \E q \in QueueNames : BrokerDeliver(q)
    \/ CallbackNext
    \/ PollingNext
    \/ \E e \in Envelopes : CallAck(e)
    \/ \E e \in Envelopes : CallNack(e)
    \/ ConnClose

ConsumerSpec == ConsumerInit /\ [][ConsumerNext]_vars

----------------------------------------------------------------------------
(* Embedder worker *)

TilesOf(ms) == {_tile_id_for_req(ms[i]) : i \in 1..Len(ms)}

\* rows_by_table / tile_ids_by_table / envelopes_by_table of process_batch
ItemsOfTable(its, n) == SelectSeq(its, LAMBDA m : _resolve_table_name(m) = n)

RowsOfTable(its, n) ==
    LET sel == ItemsOfTable(its, n) IN [i \in 1..Len(sel) |-> Row(sel[i])]

TablesOfItems(its) == {_resolve_table_name(its[i]) : i \in 1..Len(its)}

\* the next table of "for table_name, rows in rows_by_table.items()": dict
\* order is the order of the first item of each table
NextTable(its, done) ==
    LET i == CHOOSE j \in 1..Len(its) :
                 /\ _resolve_table_name(its[j]) \notin done
                 /\ \A k \in 1..(j - 1) : _resolve_table_name(its[k]) \in done
    IN  _resolve_table_name(its[i])

\* process_batch returns early: the items are dropped, nothing is acked
ReturnFromBatch(w) ==
    /\ wpc' = [wpc EXCEPT ![w] = "consume"]
    /\ items' = [items EXCEPT ![w] = <<>>]
    /\ upserted' = [upserted EXCEPT ![w] = {}]

\* run: "except Exception" around the consume loop. The generator of
\* bus.consume is closed, its connection with it, and the broker requeues what
\* the connection had not acked; the local batch is dropped.
ConsumeFailed(w) ==
    /\ queue' = Requeue(queue, unacked[w])
    /\ unacked' = [unacked EXCEPT ![w] = <<>>]
    /\ batch' = [batch EXCEPT ![w] = <<>>]

\* process_batch, first statement: _safe_update_status(tile_ids, "waiting for
\* embedding") for the tiles of the batch b
StartBatch(w, b) ==
    /\ status' = update_status(status, TilesOf(b), WAITING_FOR_EMBEDDING)
    /\ wpc' = [wpc EXCEPT ![w] = "load"]

\* run: one envelope of bus.consume; IndexRequest(**payload); batch.append;
\* flush by size or by time: process_batch()
WReceive(w) ==
    /\ wpc[w] = "consume"
    /\ queue # <<>>
    /\ Len(unacked[w]) < PrefetchCount
    /\ LET m == Head(queue)
       IN  IF IndexRequestValidates(m)
           THEN /\ queue' = Tail(queue)
                /\ unacked' = [unacked EXCEPT ![w] = Append(@, m)]
                /\ batch' = [batch EXCEPT ![w] = Append(@, m)]
                /\ \E flush \in BOOLEAN :
                      /\ Len(batch[w]) + 1 >= BatchSize => flush
                      /\ IF flush
                         THEN StartBatch(w, Append(batch[w], m))
                         ELSE UNCHANGED <<status, wpc>>
                /\ UNCHANGED rejected
           ELSE /\ ConsumeFailed(w)
                /\ rejected' = rejected \cup {m}
                /\ UNCHANGED <<status, wpc>>
    /\ UNCHANGED <<published, tables, items, upserted, events, schedVars,
                   ingest, registered, schedPublished, crashedBatch, schedCrashes>>
    /\ UNCHANGED auxVars

\* run: an idle envelope (None) with flush_interval_s elapsed: process_batch()
WIdleFlush(w) ==
    /\ wpc[w] = "consume"
    /\ batch[w] # <<>>
    /\ StartBatch(w, batch[w])
    /\ UNCHANGED <<busVars, tables, batch, items, upserted, events, schedVars, ingest,
                   histVars>>
    /\ UNCHANGED auxVars

\* LoadTiles without the ack of the failed entries
LoadTilesNoAck(w, bad) ==
    LET good == (1..Len(batch[w])) \ bad
        failedMsgs == {batch[w][i] : i \in bad}
        loaded == SubSeqAt(batch[w], good, 1)
    IN  /\ status' = update_status(status, {_tile_id_for_req(m) : m \in failedMsgs}, FAILED)
        /\ UNCHANGED unacked
        /\ items' = [items EXCEPT ![w] = loaded]
        /\ batch' = [batch EXCEPT ![w] = <<>>]
        /\ wpc' = [wpc EXCEPT ![w] = IF loaded = <<>> THEN "consume" ELSE "embed"]

\* LoadTiles where one failed entry ends the loads: no entry becomes an item
LoadTilesStalls(w, bad) ==
    LET good == IF bad = {} THEN 1..Len(batch[w]) ELSE {}
        failedMsgs == {batch[w][i] : i \in bad}
        loaded == SubSeqAt(batch[w], good, 1)
    IN  /\ status' = update_status(status, {_tile_id_for_req(m) : m \in failedMsgs}, FAILED)
        /\ unacked' = [unacked EXCEPT ![w] = AckEnvelopes(@, failedMsgs)]
        /\ items' = [items EXCEPT ![w] = loaded]
        /\ batch' = [batch EXCEPT ![w] = <<>>]
        /\ wpc' = [wpc EXCEPT ![w] = IF loaded = <<>> THEN "consume" ELSE "embed"]

\* process_batch: the tile loads. The entries at the indexes in bad fail (tile
\* store init error, load error, job_timeout_s, embedder override ignored):
\* marked failed and acked; the others become items. The batch is cleared.
LoadTiles(w, bad) ==
    LET good == (1..Len(batch[w])) \ bad
        failedMsgs == {batch[w][i] : i \in bad}
        loaded == SubSeqAt(batch[w], good, 1)
    IN  /\ status' = update_status(status, {_tile_id_for_req(m) : m \in failedMsgs}, FAILED)
        /\ unacked' = [unacked EXCEPT ![w] = AckEnvelopes(@, failedMsgs)]
        /\ items' = [items EXCEPT ![w] = loaded]
        /\ batch' = [batch EXCEPT ![w] = <<>>]
        /\ wpc' = [wpc EXCEPT ![w] = IF loaded = <<>> THEN "consume" ELSE "embed"]

WLoad(w) ==
    /\ wpc[w] = "load"
    /\ \E bad \in SUBSET (1..Len(batch[w])) : LoadTiles(w, bad)
    /\ UNCHANGED <<queue, published, tables, upserted, events,
                   schedVars, ingest, histVars>>
    /\ UNCHANGED auxVars

\* process_batch: embed_pil_images per embedder group; when one raises the
\* function returns; else _safe_update_status(tile_ids, "waiting for index")
WEmbed(w) ==
    /\ wpc[w] = "embed"
    /\ \/ /\ status' = update_status(status, TilesOf(items[w]), WAITING_FOR_INDEX)
          /\ wpc' = [wpc EXCEPT ![w] = "upsert"]
          /\ UNCHANGED <<items, upserted>>
       \/ /\ ReturnFromBatch(w)
          /\ UNCHANGED status
    /\ UNCHANGED <<busVars, tables, batch, events, schedVars, ingest, histVars>>
    /\ UNCHANGED auxVars

\* UpsertRaised with the envelopes acked in the except branch
UpsertRaisedAcks(w, n) ==
    /\ ReturnFromBatch(w)
    /\ unacked' = [unacked EXCEPT ![w] = AckEnvelopes(@, Range(items[w]))]
    /\ UNCHANGED <<tables, status>>

\* process_batch: vectordb.upsert raised for table n
UpsertRaised(w, n) ==
    /\ ReturnFromBatch(w)
    /\ UNCHANGED <<tables, unacked, status>>

\* process_batch: vectordb.upsert(table_name, rows) for the next table
WUpsert(w) ==
    /\ wpc[w] = "upsert"
    /\ LET n == NextTable(items[w], upserted[w])
       IN  \/ /\ tables' = [tables EXCEPT ![n] = upsert_rows(@, RowsOfTable(items[w], n))]
              /\ upserted' = [upserted EXCEPT ![w] = @ \cup {n}]
              /\ wpc' = [wpc EXCEPT ![w] =
                            IF TablesOfItems(items[w]) \subseteq upserted[w] \cup {n}
                            THEN "finish" ELSE "upsert"]
              /\ UNCHANGED <<items, unacked, status, events>>
           \/ /\ events < MaxEvents
              /\ events' = events + 1
              /\ UpsertRaised(w, n)
    /\ UNCHANGED <<queue, published, batch, schedVars,
                   ingest, histVars>>
    /\ UNCHANGED auxVars

\* process_batch: "Upsert succeeded: mark indexed and ack"
WFinish(w) ==
    /\ wpc[w] = "finish"
    /\ status' = update_status(status, TilesOf(items[w]), INDEXED)
    /\ unacked' = [unacked EXCEPT ![w] = AckEnvelopes(@, Range(items[w]))]
    /\ ReturnFromBatch(w)
    /\ UNCHANGED <<queue, published, tables, batch, events,
                   schedVars, ingest, histVars>>
    /\ UNCHANGED auxVars

\* the worker process dies holding deliveries and is started again: the broker
\* requeues what its connection had not acked
WCrash(w) ==
    /\ unacked[w] # <<>>
    /\ events < MaxEvents
    /\ events' = events + 1
    /\ queue' = Requeue(queue, unacked[w])
    /\ unacked' = [unacked EXCEPT ![w] = <<>>]
    /\ batch' = [batch EXCEPT ![w] = <<>>]
    /\ ReturnFromBatch(w)
    /\ crashedBatch' =
          IF upserted[w] = {}
          THEN crashedBatch \cup Range(batch[w]) \cup Range(items[w])
          ELSE crashedBatch
    /\ UNCHANGED <<status, published, tables, schedVars, ingest, registered,
                   schedPublished, rejected, schedCrashes>>
    /\ UNCHANGED auxVars

----------------------------------------------------------------------------
(* The worker with require_index_status_before_ack set either way and a    *)
(* tiles repository whose "indexed" write may fail                         *)

\* every envelope is acked, whatever the status write returned
AckAlways(require, status_ok) == TRUE

\* "if status_ok or not s.require_index_status_before_ack"
AckAllowed(require, status_ok) == status_ok \/ ~require

\* process_batch: "Upsert succeeded: mark indexed and ack", table by table;
\* _safe_update_status returns False for the tables in failed
WFinishChecked(w) ==
    /\ wpc[w] = "finish"
    /\ \E failed \in SUBSET TablesOfItems(items[w]) :
          LET written == SelectSeq(items[w], LAMBDA m : _resolve_table_name(m) \notin failed)
              acked == SelectSeq(items[w], LAMBDA m :
                          AckAllowed(settings.require_index_status_before_ack,
                                     _resolve_table_name(m) \notin failed))
          IN  /\ status' = update_status(status, TilesOf(written), INDEXED)
              /\ unacked' = [unacked EXCEPT ![w] = AckEnvelopes(@, Range(acked))]
              /\ index_failed' = failed
    /\ ReturnFromBatch(w)
    /\ UNCHANGED <<queue, published, tables, batch, events,
                   schedVars, ingest, histVars>>
    /\ UNCHANGED <<regAux, routeAux, tickAux, conAux, settings, restAux>>

AckInit ==
    /\ CoreInit
    /\ RegAuxInit
    /\ RouteAuxInit
    /\ TickAbsent
    /\ ConAbsent
    /\ settings \in [require_index_status_before_ack : BOOLEAN]
    /\ index_failed = {}
    /\ RestAbsent

AckNext ==
    \/ \E t \in Tiles : IngestPublish(t)
    \/ IngestUpsert
    \/ \E w \in Workers : WReceive(w)
    \/ \E w \in Workers : WIdleFlush(w)
    \/ \E w \in Workers : WLoad(w)
    \/ \E w \in Workers : WEmbed(w)
    \/ \E w \in Workers : WUpsert(w)
    \/ \E w \in Workers : WFinishChecked(w)
    \/ \E w \in Workers : WCrash(w)

AckSpec == AckInit /\ [][AckNext]_vars

----------------------------------------------------------------------------
(* TTL sweep of the victor daemon *)

\* the clock stops at MaxNow, the daemon after MaxSweeps sweeps
MaxNow == 3
MaxSweeps == 2

\* the ttl_s argument of cleanup_expired_tiles
TTLs == {-1, 0, 1, 2}

NoSweep == [calls |-> 0, ttl_s |-> 0, cutoff |-> 0, result |-> "none"]

\* SqliteTilesRepository.delete_tiles: DELETE FROM tiles WHERE tile_id = ?
delete_tiles(st, ids) == [t \in Tiles |-> IF t \in ids THEN NoRow ELSE st[t]]

\* time.time() advances
WallTick ==
    /\ wall.now < MaxNow
    /\ wall' = [wall EXCEPT !.now = @ + 1]
    /\ UNCHANGED <<status, tables, sweep>>
    /\ UNCHANGED besideSweep

\* a tile generator registers tile t
SweepRegister(t) ==
    /\ status[t] = NoRow
    /\ status' = create_tile(status, t)
    /\ UNCHANGED <<tables, wall, sweep>>
    /\ UNCHANGED besideSweep

\* process_batch of a worker for a batch of the one tile t, nothing failing:
\* the row is upserted, the tile is marked indexed
SweepIndex(t) ==
    /\ status[t] \notin {NoRow, INDEXED}
    /\ LET m == Message(1, t, "IndexRequest")
           n == _resolve_table_name(m)
       IN  tables' = [tables EXCEPT ![n] = upsert_rows(@, <<Row(m)>>)]
    /\ status' = update_status(status, {t}, INDEXED)
    /\ wall' = [wall EXCEPT !.marked[t] = {wall.now}]
    /\ UNCHANGED sweep
    /\ UNCHANGED besideSweep

\* VictorDaemon.cleanup_expired_tiles(ttl_s, limit, table_names): with a
\* positive ttl_s the call of self.tiles_repo.list_expired_tiles raises
\* AttributeError, SqliteTilesRepository has no such method; delete_where and
\* delete_tiles come after it
cleanup_expired_tiles(ttl_s) ==
    /\ sweep.calls < MaxSweeps
    /\ sweep' = [calls |-> sweep.calls + 1, ttl_s |-> ttl_s,
                 cutoff |-> IF ttl_s <= 0 THEN 0 ELSE wall.now - ttl_s,
                 result |-> IF ttl_s <= 0 THEN "0" ELSE "AttributeError"]
    /\ UNCHANGED <<status, tables, wall>>
    /\ UNCHANGED besideSweep

SweepInit ==
    /\ CoreInit
    /\ RegAuxInit
    /\ RouteAuxInit
    /\ TickAbsent
    /\ ConAbsent
    /\ AckAuxInit
    /\ wall = [now |-> 0, marked |-> [t \in Tiles |-> {}]]
    /\ sweep = NoSweep
    /\ VecAbsent
    /\ WriteAbsent
    /\ KeyAbsent
    /\ LoadAbsent
    /\ LoopAbsent
    /\ LateAbsent

SweepNext ==
    \/ WallTick
    \/ \E t \in Tiles : SweepRegister(t)
    \/ \E t \in Tiles : SweepIndex(t)
    \/ \E ttl_s \in TTLs : cleanup_expired_tiles(ttl_s)

\* the daemon's TTL sweep beside generators and a worker
SweepSpec == SweepInit /\ [][SweepNext]_vars

----------------------------------------------------------------------------
(* Vector index service: LanceDBAdapter and its HTTP surface *)

\* the embedding dimensions and the image_ids of the rows of a request
MaxDim == 2
MaxImageId == 2

Dims == 1..MaxDim

\* a row of a request: its image_id and its embedding, which is modelled by
\* its length (0: the row has no embedding)
VRows == [image_id : 1..MaxImageId, embedding : 0..MaxDim]

\* the rows of a request: image_ids differ, only the first row may lack its
\* embedding
RowLists ==
    {<<>>} \cup {<<r>> : r \in VRows}
        \cup {rows \in {<<r1, r2>> : r1 \in VRows, r2 \in VRows} :
                 rows[2].embedding > 0 /\ rows[2].image_id # rows[1].image_id}

\* the rows the adapter is called with in process: every row has an embedding
EmbeddedRowLists ==
    {rows \in RowLists : \A i \in 1..Len(rows) : rows[i].embedding > 0}

\* a name that is not in table_names()
Missing == [exists |-> FALSE]

\* create_table(table_name, data = empty, mode = "create") with the schema of
\* _build_schema(embedding_dim)
NewTable(embedding_dim) == [exists |-> TRUE, dim |-> embedding_dim, rows |-> <<>>]

\* _table_exists of the service, "table_name in self._db.table_names()" of the
\* adapter
_table_exists(db, n) == db[n].exists

\* LanceDBAdapter.get_or_create_table: an existing table is opened whatever
\* embedding_dim is, a missing one is created with embedding_dim
get_or_create_table(db, n, embedding_dim) ==
    IF _table_exists(db, n) THEN db ELSE [db EXCEPT ![n] = NewTable(embedding_dim)]

\* the rows fit the vector column of the table
FitsSchema(tbl, rows) == \A i \in 1..Len(rows) : rows[i].embedding = tbl.dim

\* LanceDBAdapter.upsert_rows: the table is opened or created first, an empty
\* list returns 0 after it; rows that fit are merged on image_id; with a row
\* that does not fit the vector column merge_insert raises, the fallback
\* deletes the rows of the same image_ids and table.add raises
AdapterUpsertRows(db, n, rows, embedding_dim) ==
    LET opened == get_or_create_table(db, n, embedding_dim)
        tbl == opened[n]
        ids == {rows[i].image_id : i \in 1..Len(rows)}
    IN  IF rows = <<>> THEN [db |-> opened, result |-> "0"]
        ELSE IF FitsSchema(tbl, rows)
        THEN [db |-> [opened EXCEPT ![n].rows = upsert_rows(@, rows)],
              result |-> "inserted"]
        ELSE [db |-> [opened EXCEPT ![n].rows =
                                     SelectSeq(@, LAMBDA r : r.image_id \notin ids)],
              result |-> "error"]

\* the response to a call and the call it answers
Response(op, n, rows, embedding_dim, result) ==
    [seq |-> 1 - vresp.seq, op |-> op, table_name |-> n, rows |-> rows,
     embedding_dim |-> embedding_dim, result |-> result]

\* a direct call of LanceDBAdapter.get_or_create_table(n, embedding_dim)
GetOrCreateTable(n, embedding_dim) ==
    /\ lance' = get_or_create_table(lance, n, embedding_dim)
    /\ vresp' = Response("get_or_create_table", n, <<>>, embedding_dim, "table")
    /\ UNCHANGED besideVector

\* a direct call of LanceDBAdapter.upsert_rows(n, rows, embedding_dim)
UpsertRows(n, rows, embedding_dim) ==
    LET out == AdapterUpsertRows(lance, n, rows, embedding_dim)
    IN  /\ lance' = out.db
        /\ vresp' = Response("upsert_rows", n, rows, embedding_dim, out.result)
        /\ UNCHANGED besideVector

\* POST /tables/{n}/upsert
HttpUpsert(n, rows) ==
    /\ IF rows = <<>>
       THEN /\ vresp' = Response("POST upsert", n, rows, 0, "200 inserted=0")
            /\ UNCHANGED lance
       ELSE IF rows[1].embedding = 0
       THEN /\ vresp' = Response("POST upsert", n, rows, 0, "400")
            /\ UNCHANGED lance
       ELSE LET embedding_dim == rows[1].embedding
                out == AdapterUpsertRows(lance, n, rows, embedding_dim)
            IN  /\ lance' = out.db
                /\ vresp' = Response("POST upsert", n, rows, embedding_dim,
                                     IF out.result = "error" THEN "500" ELSE "200")
    /\ UNCHANGED besideVector

\* POST /tables/{n}/search: a missing table answers with no results
HttpSearch(n) ==
    /\ vresp' = Response("POST search", n, <<>>, 0,
                         IF _table_exists(lance, n) THEN "200 results" ELSE "200 results=[]")
    /\ UNCHANGED lance
    /\ UNCHANGED besideVector

\* a direct call of LanceDBAdapter.vector_search(n, ...): open_table raises
\* for a missing table
VectorSearch(n) ==
    /\ vresp' = Response("vector_search", n, <<>>, 0,
                         IF _table_exists(lance, n) THEN "results" ELSE "error")
    /\ UNCHANGED lance
    /\ UNCHANGED besideVector

VectorInit ==
    /\ CoreInit
    /\ RegAuxInit
    /\ RouteAuxInit
    /\ TickAbsent
    /\ ConAbsent
    /\ AckAuxInit
    /\ SweepAbsent
    /\ WriteAbsent
    /\ KeyAbsent
    /\ LoadAbsent
    /\ LoopAbsent
    /\ LateAbsent
    /\ lance = [n \in TableNames |-> Missing]
    /\ vresp = [seq |-> 0, op |-> "none"]

VectorNext ==
    \/ \E n \in TableNames, d \in Dims : GetOrCreateTable(n, d)
    \/ \E n \in TableNames, rows \in EmbeddedRowLists, d \in Dims : UpsertRows(n, rows, d)
    \/ \E n \in TableNames, rows \in RowLists : HttpUpsert(n, rows)
    \/ \E n \in TableNames : HttpSearch(n)
    \/ \E n \in TableNames : VectorSearch(n)

\* the vector index service and adapter, driven by their callers
VectorSpec == VectorInit /\ [][VectorNext]_vars

----------------------------------------------------------------------------
(* Registry writes: create_tile and upsert_tiles on the tiles table *)

\* the tiles that the callers write
WrittenTiles == {1, 2}

\* the statuses a caller writes: one of the TileStatus enum, one outside it
GivenStatuses == {INDEXED, WAITING_FOR_EMBEDDING}

\* tile_data: tile_id is {} for a missing or empty tile_id, status is {} when
\* the dict has no "status" key
TileData == [tile_id : {{}} \cup {{t} : t \in WrittenTiles},
             status : {{}} \cup {{s} : s \in GivenStatuses}]

\* the tiles of one upsert_tiles call: none, one or two
TileDataLists ==
    {<<>>} \cup {<<d>> : d \in TileData} \cup {<<d1, d2>> : d1 \in TileData, d2 \in TileData}

\* INSERT INTO tiles without a conflict clause
InsertAlways(rows, row) == Append(rows, row)

\* INSERT INTO tiles (...) VALUES (...) ON CONFLICT(tile_id) DO UPDATE SET
\* every other column
InsertOnConflict(rows, row) ==
    IF \E i \in 1..Len(rows) : rows[i].tile_id = row.tile_id
    THEN [i \in 1..Len(rows) |-> IF rows[i].tile_id = row.tile_id THEN row ELSE rows[i]]
    ELSE Append(rows, row)

\* the results of a call that are not a TileResponse
ValueError == [raised |-> "ValueError"]
ReturnedNone == [returned |-> "None"]

\* _row_to_response: a status outside the enum reads as READY_FOR_INDEXING
_row_to_response(row) ==
    [tile_id |-> row.tile_id,
     status |-> IF row.status \in TileStatus THEN row.status ELSE READY_FOR_INDEXING]

\* SqliteTilesRepositoryService.create_tile(tile_data)
CreateTile(rows, tile_data) ==
    IF tile_data.tile_id = {}
    THEN [rows |-> rows, result |-> ValueError]
    ELSE LET tile_id == CHOOSE t \in tile_data.tile_id : TRUE
             st == IF tile_data.status = {} THEN READY_FOR_INDEXING
                   ELSE CHOOSE s \in tile_data.status : TRUE
             written == InsertOnConflict(rows, [tile_id |-> tile_id, status |-> st])
             row == written[CHOOSE i \in 1..Len(written) : written[i].tile_id = tile_id]
         IN  [rows |-> written, result |-> _row_to_response(row)]

RECURSIVE CreateTiles(_, _)
\* SqliteTilesRepositoryService.upsert_tiles(tiles): create_tile for each tile,
\* every create_tile commits; the first error ends the loop
CreateTiles(rows, tiles) ==
    IF tiles = <<>> THEN [rows |-> rows, result |-> ReturnedNone]
    ELSE LET out == CreateTile(rows, Head(tiles))
         IN  IF out.result = ValueError THEN out
             ELSE CreateTiles(out.rows, Tail(tiles))

\* a caller of the repository calls create_tile(tile_data)
CallCreateTile(tile_data) ==
    LET out == CreateTile(tiles_rows, tile_data)
    IN  /\ tiles_rows' = out.rows
        /\ tiles_call' = [seq |-> 1 - tiles_call.seq, op |-> "create_tile",
                          tiles |-> <<tile_data>>, result |-> out.result]
        /\ UNCHANGED besideWrites

\* a caller of the repository calls upsert_tiles(tiles)
CallUpsertTiles(tiles) ==
    LET out == CreateTiles(tiles_rows, tiles)
    IN  /\ tiles_rows' = out.rows
        /\ tiles_call' = [seq |-> 1 - tiles_call.seq, op |-> "upsert_tiles",
                          tiles |-> tiles, result |-> out.result]
        /\ UNCHANGED besideWrites

WritesInit ==
    /\ CoreInit
    /\ RegAuxInit
    /\ RouteAuxInit
    /\ TickAbsent
    /\ ConAbsent
    /\ AckAuxInit
    /\ SweepAbsent
    /\ VecAbsent
    /\ KeyAbsent
    /\ LoadAbsent
    /\ LoopAbsent
    /\ LateAbsent
    /\ tiles_rows = <<>>
    /\ tiles_call = [seq |-> 0, op |-> "none"]

WritesNext ==
    \/ \E tile_data \in TileData : CallCreateTile(tile_data)
    \/ \E tiles \in TileDataLists : CallUpsertTiles(tiles)

\* the tiles table under the writes of the registry's callers
WritesSpec == WritesInit /\ [][WritesNext]_vars

----------------------------------------------------------------------------
(* Tile ids: canonical_tile_id and tile_id_hash *)

\* the coordinates z, x, y of the keys
MaxCoord == 1

\* what the model keeps of the 64 bits of tile_id_hash
HashSpace == 16

Digit(d) == <<"0", "1", "2", "3", "4", "5", "6", "7", "8", "9">>[d + 1]

RECURSIVE str(_)
\* str(n) of an int, as the f-string formats it
str(n) ==
    IF n < 0 THEN <<"-">> \o str(0 - n)
    ELSE IF n < 10 THEN <<Digit(n)>>
    ELSE str(n \div 10) \o <<Digit(n % 10)>>

RECURSIVE rstrip(_, _)
\* s.rstrip(c): every trailing c is removed
rstrip(s, c) ==
    IF s # <<>> /\ s[Len(s)] = c THEN rstrip(SubSeq(s, 1, Len(s) - 1), c) ELSE s

\* the source names and variants of the keys; a variant is {} for None
Sources == {<<"s">>, <<"s", ":", "0", "/", "0", "/", "0">>}
Variants == {{}, {<<>>}, {<<"v">>}, {<<"v", ":">>}, {<<"0", "/", "0", "/", "0">>}}

TileKey == [source : Sources, z : 0..MaxCoord, x : 0..MaxCoord, y : 0..MaxCoord,
            variant : Variants]

\* canonical_tile_id(key): f"{source}:{z}/{x}/{y}:{variant}".rstrip(":")
canonical_tile_id(key) ==
    LET variant == IF key.variant = {} THEN <<>> ELSE CHOOSE v \in key.variant : TRUE
    IN  rstrip(key.source \o <<":">> \o str(key.z) \o <<"/">> \o str(key.x) \o <<"/">>
                  \o str(key.y) \o <<":">> \o variant, ":")

\* the code points of the characters of a tile id
Ord(c) ==
    CASE c = "s" -> 115 [] c = "v" -> 118 [] c = ":" -> 58 [] c = "/" -> 47
      [] c = "-" -> 45
      [] OTHER -> 48 + CHOOSE d \in 0..9 : Digit(d) = c

RECURSIVE Digest(_)
\* a digest of the characters of s, in place of sha256
Digest(s) ==
    IF s = <<>> THEN 7 ELSE (31 * Digest(SubSeq(s, 1, Len(s) - 1)) + Ord(s[Len(s)])) % HashSpace

\* tile_id_hash(tile_id): the first 16 hex digits of the sha256 of the id
tile_id_hash(tile_id) == Digest(tile_id)

\* a tiler builds the ids of its two keys
BuildIds ==
    /\ tile_ids = <<>>
    /\ tile_ids' = [i \in 1..2 |->
                      LET tile_id == canonical_tile_id(tile_keys[i])
                      IN  [tile_id |-> tile_id, hash |-> tile_id_hash(tile_id)]]
    /\ UNCHANGED tile_keys
    /\ UNCHANGED besideKeys

KeyInit ==
    /\ CoreInit
    /\ RegAuxInit
    /\ RouteAuxInit
    /\ TickAbsent
    /\ ConAbsent
    /\ AckAuxInit
    /\ SweepAbsent
    /\ VecAbsent
    /\ WriteAbsent
    /\ LoadAbsent
    /\ LoopAbsent
    /\ LateAbsent
    /\ tile_keys \in [1..2 -> TileKey]
    /\ tile_ids = <<>>

KeyNext == BuildIds

\* the tile ids of any two keys
KeySpec == KeyInit /\ [][KeyNext]_vars

----------------------------------------------------------------------------
(* Two workers consuming the same queue *)

WorkerPair == {"w1", "w2"}

PairInit ==
    /\ status = [t \in Tiles |-> NoRow]
    /\ queue = <<>>
    /\ unacked = [w \in WorkerPair |-> <<>>]
    /\ published = 0
    /\ tables = [n \in TableNames |-> <<>>]
    /\ wpc = [w \in WorkerPair |-> "consume"]
    /\ batch = [w \in WorkerPair |-> <<>>]
    /\ items = [w \in WorkerPair |-> <<>>]
    /\ upserted = [w \in WorkerPair |-> {}]
    /\ events = 0
    /\ schedPc = "idle"
    /\ schedTiles = <<>>
    /\ ingest = {}
    /\ claimOk = FALSE
    /\ registered = [t \in Tiles |-> 0]
    /\ schedPublished = [t \in Tiles |-> 0]
    /\ rejected = {}
    /\ crashedBatch = {}
    /\ schedCrashes = 0
    /\ AuxInit

PairNext ==
    \/ \E t \in Tiles : IngestPublish(t)
    \/ IngestUpsert
    \/ \E w \in WorkerPair : WReceive(w)
    \/ \E w \in WorkerPair : WIdleFlush(w)
    \/ \E w \in WorkerPair : WLoad(w)
    \/ \E w \in WorkerPair : WEmbed(w)
    \/ \E w \in WorkerPair : WUpsert(w)
    \/ \E w \in WorkerPair : WFinish(w)

\* manifest ingest and two embedder workers on one queue
PairSpec == PairInit /\ [][PairNext]_vars

----------------------------------------------------------------------------
(* One worker, with the outcome of the tile loads of its last batch *)

NoLoads == [batch |-> <<>>, bad |-> {}]

\* WLoad, with the batch and the entries that failed kept in loads
WLoadNoted(w) ==
    /\ wpc[w] = "load"
    /\ \E bad \in SUBSET (1..Len(batch[w])) :
          /\ LoadTiles(w, bad)
          /\ loads' = [batch |-> batch[w], bad |-> bad]
    /\ UNCHANGED <<queue, published, tables, upserted, events,
                   schedVars, ingest, histVars>>
    /\ UNCHANGED besideLoads

BatchInit ==
    /\ CoreInit
    /\ RegAuxInit
    /\ RouteAuxInit
    /\ TickAbsent
    /\ ConAbsent
    /\ AckAuxInit
    /\ SweepAbsent
    /\ VecAbsent
    /\ WriteAbsent
    /\ KeyAbsent
    /\ LoopAbsent
    /\ LateAbsent
    /\ loads = NoLoads

BatchNext ==
    \/ \E t \in Tiles : IngestPublish(t)
    \/ IngestUpsert
    \/ \E w \in Workers : WReceive(w)
    \/ \E w \in Workers : WIdleFlush(w)
    \/ \E w \in Workers : WLoadNoted(w)
    \/ \E w \in Workers : WEmbed(w)
    \/ \E w \in Workers : WUpsert(w)
    \/ \E w \in Workers : WFinish(w)

\* manifest ingest and one worker
BatchSpec == BatchInit /\ [][BatchNext]_vars

----------------------------------------------------------------------------
(* The consume loop of the worker with its clock: flush by size or by time *)

\* batch_size and flush_interval_s of EmbedderSettings, and the window of
\* seconds in which the clock is kept
MaxBatchSize == 3
MaxInterval == 2
MaxElapsed == 3

\* the flush after an envelope, by size only
FlushDueBySize(s, n, now, last_batch_ts) == n >= s.batch_size

\* run: "if len(batch) >= s.batch_size or (now - last_batch_ts) >= s.flush_interval_s"
FlushDue(s, n, now, last_batch_ts) ==
    n >= s.batch_size \/ (now - last_batch_ts) >= s.flush_interval_s

\* run: "if batch and (now - last_batch_ts) >= s.flush_interval_s"
IdleFlushDue(s, n, now, last_batch_ts) ==
    n > 0 /\ (now - last_batch_ts) >= s.flush_interval_s

\* time.time() advances by a second. Only now - last_batch_ts is read: at the
\* end of the window it is last_batch_ts that moves back
LoopTick ==
    /\ loop' = IF loop.now < MaxElapsed
               THEN [loop EXCEPT !.now = @ + 1]
               ELSE [loop EXCEPT !.last_batch_ts = IF @ > 0 THEN @ - 1 ELSE 0]
    /\ UNCHANGED besideLoop

\* run: bus.consume yields the envelope of a message: batch.append, the start
\* of a batch sets last_batch_ts, then the flush check; process_batch empties
\* the batch
LoopEnvelope ==
    LET n == loop.batch_len + 1
        started == IF n = 1 THEN loop.now ELSE loop.last_batch_ts
        flush == FlushDue(loop.settings, n, loop.now, started)
    IN  /\ loop' = [loop EXCEPT !.polls = 1 - @,
                                !.got = "envelope",
                                !.batch_len = IF flush THEN 0 ELSE n,
                                !.last_batch_ts = IF flush THEN loop.now ELSE started,
                                !.did = IF flush THEN "flush" ELSE "append"]
        /\ UNCHANGED besideLoop

\* run: bus.consume yields None after a second without a message
LoopIdle ==
    LET flush == IdleFlushDue(loop.settings, loop.batch_len, loop.now, loop.last_batch_ts)
    IN  /\ loop' = [loop EXCEPT !.polls = 1 - @,
                                !.got = "None",
                                !.batch_len = IF flush THEN 0 ELSE @,
                                !.last_batch_ts = IF flush THEN loop.now ELSE @,
                                !.did = IF flush THEN "flush" ELSE "idle"]
        /\ UNCHANGED besideLoop

\* run: "except Exception": the consume failed, the local batch is dropped
LoopFails ==
    /\ loop' = [loop EXCEPT !.polls = 1 - @, !.got = "Exception", !.batch_len = 0,
                            !.did = "dropped"]
    /\ UNCHANGED besideLoop

LoopInit ==
    /\ CoreInit
    /\ RegAuxInit
    /\ RouteAuxInit
    /\ TickAbsent
    /\ ConAbsent
    /\ AckAuxInit
    /\ SweepAbsent
    /\ VecAbsent
    /\ WriteAbsent
    /\ KeyAbsent
    /\ LoadAbsent
    /\ LateAbsent
    /\ \E batch_size \in 1..MaxBatchSize, flush_interval_s \in 1..MaxInterval :
          loop = [settings |-> [batch_size |-> batch_size,
                                flush_interval_s |-> flush_interval_s],
                  now |-> MaxElapsed, last_batch_ts |-> 0, batch_len |-> 0,
                  polls |-> 0, got |-> "nothing", did |-> "start"]

LoopNext ==
    \/ LoopTick
    \/ LoopEnvelope
    \/ LoopIdle
    \/ LoopFails

\* the consume loop; the clock advances and bus.consume keeps yielding
LoopSpec ==
    /\ LoopInit
    /\ [][LoopNext]_vars
    /\ WF_vars(LoopTick)
    /\ WF_vars(LoopIdle)

----------------------------------------------------------------------------
(* Embedder worker: shutdown *)

\* the worker before any signal
NoSignal == [signal |-> "none", pending |-> <<>>, calls |-> 0, exited |-> FALSE]

\* what a signal to the worker leaves alone, beside the indexing fabric
besideStop ==
    <<regAux, routeAux, tickAux, conAux, ackAux, sweepAux, vecAux, writeAux, keyAux,
      loadAux, loopAux, fallback, daemon>>

\* run is inside "for envelope in bus.consume(...)": no signal has arrived
Taking(w) == stop[w].signal = "none"

\* the worker process is alive
Alive(w) == ~stop[w].exited

\* SIGINT: KeyboardInterrupt is raised at the statement run is at, the locals of
\* an interrupted process_batch call are dropped, and "except
\* KeyboardInterrupt" calls process_batch() once with the batch as it is
WInterrupt(w) ==
    /\ Taking(w)
    /\ stop' = [stop EXCEPT ![w] =
                   [signal |-> "SIGINT", pending |-> batch[w], calls |-> 1,
                    exited |-> FALSE]]
    /\ items' = [items EXCEPT ![w] = <<>>]
    /\ upserted' = [upserted EXCEPT ![w] = {}]
    /\ IF batch[w] # <<>>
       THEN StartBatch(w, batch[w])
       ELSE /\ wpc' = [wpc EXCEPT ![w] = "consume"]
            /\ UNCHANGED status
    /\ UNCHANGED <<busVars, tables, batch, events, schedVars, ingest, histVars>>
    /\ UNCHANGED besideStop

\* run, "finally" after the last process_batch: executor.shutdown(wait=True),
\* run returns and the process ends; the broker requeues what its connection
\* had not acked
WExit(w) ==
    /\ stop[w].signal = "SIGINT"
    /\ Alive(w)
    /\ wpc[w] = "consume"
    /\ stop' = [stop EXCEPT ![w].exited = TRUE]
    /\ queue' = Requeue(queue, unacked[w])
    /\ unacked' = [unacked EXCEPT ![w] = <<>>]
    /\ UNCHANGED <<status, published, tables, workerVars, events, schedVars, ingest,
                   histVars>>
    /\ UNCHANGED besideStop

\* SIGTERM: the worker installs no handler, so the interpreter's default
\* disposition ends the process at once, without "except" or "finally"; the
\* broker requeues what its connection had not acked
WTerminate(w) ==
    /\ Taking(w)
    /\ stop' = [stop EXCEPT ![w] =
                   [signal |-> "SIGTERM", pending |-> batch[w], calls |-> 0,
                    exited |-> TRUE]]
    /\ queue' = Requeue(queue, unacked[w])
    /\ unacked' = [unacked EXCEPT ![w] = <<>>]
    /\ batch' = [batch EXCEPT ![w] = <<>>]
    /\ ReturnFromBatch(w)
    /\ UNCHANGED <<status, published, tables, events, schedVars, ingest, histVars>>
    /\ UNCHANGED besideStop

StopInit ==
    /\ CoreInit
    /\ RegAuxInit
    /\ RouteAuxInit
    /\ TickAbsent
    /\ ConAbsent
    /\ AckAuxInit
    /\ SweepAbsent
    /\ VecAbsent
    /\ WriteAbsent
    /\ KeyAbsent
    /\ LoadAbsent
    /\ LoopAbsent
    /\ FallbackAbsent
    /\ DaemonAbsent
    /\ stop = [w \in Workers |-> NoSignal]

StopNext ==
    \/ \E t \in Tiles : GeneratorWrite(t)
    \/ \E t \in Tiles : IngestPublish(t)
    \/ \E w \in Workers : Taking(w) /\ WReceive(w)
    \/ \E w \in Workers : Taking(w) /\ WIdleFlush(w)
    \/ \E w \in Workers : Alive(w) /\ WLoad(w)
    \/ \E w \in Workers : Alive(w) /\ WEmbed(w)
    \/ \E w \in Workers : Alive(w) /\ WUpsert(w)
    \/ \E w \in Workers : Alive(w) /\ WFinish(w)
    \/ \E w \in Workers : WInterrupt(w)
    \/ \E w \in Workers : WExit(w)
    \/ \E w \in Workers : WTerminate(w)

\* the worker's thread keeps running: a process_batch call goes on to its end
\* and run goes on to its return
StopSpec ==
    /\ StopInit
    /\ [][StopNext]_vars
    /\ \A w \in Workers :
          /\ WF_vars(Alive(w) /\ WLoad(w))
          /\ WF_vars(Alive(w) /\ WEmbed(w))
          /\ WF_vars(Alive(w) /\ WUpsert(w))
          /\ WF_vars(Alive(w) /\ WFinish(w))
          /\ WF_vars(WExit(w))

----------------------------------------------------------------------------
(* Vector index adapter: the delete + add fallback of upsert_rows *)

\* what an upsert and a read of the adapter leave alone
besideFallback ==
    <<coreVars, regAux, routeAux, tickAux, conAux, ackAux, sweepAux, vresp, writeAux,
      keyAux, loadAux, loopAux, stop, daemon>>

\* what a read returned, the rows of the table when the upsert in progress
\* began and the rows that upsert is adding
Seen(rows, before, adding) == [rows |-> rows, before |-> before, adding |-> adding]

\* no upsert is in progress
NoUpsert == [pc |-> "idle", table_name |-> "", rows |-> <<>>, before |-> <<>>]

\* "id_col IN (...)" of _build_in_clause for the ids of the rows
InClause(rows) == {rows[i].image_id : i \in 1..Len(rows)}

\* table.delete(where) of LanceDB: one committed version of the table
TableDelete(tbl, ids) == [tbl EXCEPT !.rows = SelectSeq(@, LAMBDA r : r.image_id \notin ids)]

\* upsert_rows, merge_insert(...).execute(filtered) returns: matched rows
\* replaced and unmatched rows inserted in one commit
MergeInsert(n, rows) ==
    /\ fallback.upsert.pc = "idle"
    /\ FitsSchema(lance[n], rows)
    /\ lance' = [lance EXCEPT ![n].rows = upsert_rows(@, rows)]
    /\ UNCHANGED fallback
    /\ UNCHANGED besideFallback

\* upsert_rows, merge_insert is not callable or raised: the fallback's first
\* call, table.delete of the rows with the ids of the new rows
FallbackDelete(n, rows) ==
    /\ fallback.upsert.pc = "idle"
    /\ lance' = [lance EXCEPT ![n] = TableDelete(@, InClause(rows))]
    /\ fallback' = [fallback EXCEPT !.upsert =
                       [pc |-> "deleted", table_name |-> n, rows |-> rows,
                        before |-> lance[n].rows]]
    /\ UNCHANGED besideFallback

\* upsert_rows, the fallback's second call, table.add(filtered): it raises for
\* rows that do not fit the vector column
FallbackAdd ==
    /\ fallback.upsert.pc = "deleted"
    /\ LET n == fallback.upsert.table_name
           rows == fallback.upsert.rows
       IN  lance' = IF FitsSchema(lance[n], rows)
                    THEN [lance EXCEPT ![n].rows = @ \o rows]
                    ELSE lance
    /\ fallback' = [fallback EXCEPT !.upsert = NoUpsert]
    /\ UNCHANGED besideFallback

\* a reader of table n (vector_search, sample_rows) in another thread or
\* process: it reads the latest committed version
ReadTable(n) ==
    /\ fallback' = [fallback EXCEPT !.seen =
                       IF fallback.upsert.pc = "deleted" /\ fallback.upsert.table_name = n
                       THEN Seen(lance[n].rows, fallback.upsert.before, fallback.upsert.rows)
                       ELSE Seen(lance[n].rows, lance[n].rows, <<>>)]
    /\ UNCHANGED lance
    /\ UNCHANGED besideFallback

FallbackInit ==
    /\ CoreInit
    /\ RegAuxInit
    /\ RouteAuxInit
    /\ TickAbsent
    /\ ConAbsent
    /\ AckAuxInit
    /\ SweepAbsent
    /\ WriteAbsent
    /\ KeyAbsent
    /\ LoadAbsent
    /\ LoopAbsent
    /\ StopAbsent
    /\ DaemonAbsent
    /\ vresp = Absent
    /\ lance \in [TableNames -> {NewTable(d) : d \in Dims}]
    /\ fallback = [upsert |-> NoUpsert, seen |-> Seen(<<>>, <<>>, <<>>)]

FallbackNext ==
    \/ \E n \in TableNames, rows \in EmbeddedRowLists \ {<<>>} : MergeInsert(n, rows)
    \/ \E n \in TableNames, rows \in EmbeddedRowLists \ {<<>>} : FallbackDelete(n, rows)
    \/ FallbackAdd
    \/ \E n \in TableNames : ReadTable(n)

\* the adapter's upserts with a reader beside them
FallbackSpec == FallbackInit /\ [][FallbackNext]_vars

----------------------------------------------------------------------------
(* Victor daemon: publish_ready_tiles *)

\* what a call of the daemon leaves alone, beside the indexing fabric
besideDaemon ==
    <<regAux, routeAux, tickAux, conAux, ackAux, sweepAux, vecAux, writeAux, keyAux,
      loadAux, loopAux, stop, fallback>>

\* no call of publish_ready_tiles so far
NoCall == [listed |-> <<>>, skipped |-> {}, published |-> [t \in Tiles |-> 0]]

\* a dict of SqliteTilesRepository.list_tiles: the selected columns, of which
\* the model keeps tile_id and status; image_id is not among them
RepoRow(st, t) == [tile_id |-> t, status |-> st[t]]

\* SqliteTilesRepository.list_tiles(limit, status)
RepoListTiles(st, s, limit) ==
    LET ids == list_tiles(st, s, limit) IN [i \in 1..Len(ids) |-> RepoRow(st, ids[i])]

\* _build_request(tile, run_id): None for a tile whose dict has no image_id
_build_request(tile) ==
    IF "image_id" \in DOMAIN tile THEN {[tile_id |-> tile.tile_id]} ELSE {}

\* the messages of the requests reqs, numbered from n + 1
RequestMessages(reqs, n) ==
    [i \in 1..Len(reqs) |-> Message(n + i, reqs[i].tile_id, "IndexRequest")]

\* VictorDaemon.publish_ready_tiles(ready_status, limit): the listed tiles
\* whose request is built are published, then their status is written
DaemonPublishReady(ready_status) ==
    LET tiles == RepoListTiles(status, ready_status, VictorBatchSize)
        built == SelectSeq(tiles, LAMBDA tile : _build_request(tile) # {})
        reqs == [i \in 1..Len(built) |-> CHOOSE req \in _build_request(built[i]) : TRUE]
    IN  /\ tiles # <<>>
        /\ queue' = queue \o RequestMessages(reqs, published)
        /\ published' = published + Len(reqs)
        /\ status' = update_status(status, {reqs[i].tile_id : i \in 1..Len(reqs)},
                                   WAITING_FOR_EMBEDDING)
        /\ daemon' = [listed |-> tiles,
                      skipped |-> {tile.tile_id : tile \in Range(tiles) \ Range(built)},
                      published |->
                          [t \in Tiles |->
                              daemon.published[t] +
                              Cardinality({i \in 1..Len(reqs) : reqs[i].tile_id = t})]]
        /\ UNCHANGED <<unacked, tables, workerVars, events, schedVars, ingest, histVars>>
        /\ UNCHANGED besideDaemon

DaemonInit ==
    /\ CoreInit
    /\ RegAuxInit
    /\ RouteAuxInit
    /\ TickAbsent
    /\ ConAbsent
    /\ AckAuxInit
    /\ SweepAbsent
    /\ VecAbsent
    /\ WriteAbsent
    /\ KeyAbsent
    /\ LoadAbsent
    /\ LoopAbsent
    /\ StopAbsent
    /\ FallbackAbsent
    /\ daemon = NoCall

DaemonNext ==
    \/ \E t \in Tiles : GeneratorWrite(t)
    \/ \E t \in Tiles : IngestPublish(t)
    \/ IngestUpsert
    \/ DaemonPublishReady(READY_FOR_INDEXING)
    \/ \E w \in Workers : WReceive(w)
    \/ \E w \in Workers : WIdleFlush(w)
    \/ \E w \in Workers : WLoad(w)
    \/ \E w \in Workers : WEmbed(w)
    \/ \E w \in Workers : WUpsert(w)
    \/ \E w \in Workers : WFinish(w)

\* the producers of the victor package with a worker
DaemonSpec == DaemonInit /\ [][DaemonNext]_vars

----------------------------------------------------------------------------
(* Victor daemon: the TTL sweep with a registry that lists expired tiles *)

\* the limit argument of cleanup_expired_tiles
Limits == {1, 2}

\* list_expired_tiles(cutoff_ts, limit) of the registry, which the repository
\* does not define: as the specification describes it, up to limit tiles that
\* were marked indexed at or before the cutoff
list_expired_tiles(st, marked, cutoff_ts, limit) ==
    LET all == SortedSeq({t \in Tiles :
                             st[t] = INDEXED /\ \E at \in marked[t] : at <= cutoff_ts})
    IN  SubSeq(all, 1, IF Len(all) < limit THEN Len(all) ELSE limit)

\* LanceDBAdapter.delete_where(table_name, "indexed_at <= cutoff"): a row
\* without a value in its indexed_at column does not match
delete_where(tbl, cutoff) ==
    SelectSeq(tbl, LAMBDA r : ~("indexed_at" \in DOMAIN r /\ r.indexed_at <= cutoff))

\* VictorDaemon.cleanup_expired_tiles(ttl_s, limit) with table_names = None
ExpirySweep(ttl_s, limit) ==
    /\ sweep.calls < MaxSweeps
    /\ LET cutoff == wall.now - ttl_s
           expired == IF ttl_s <= 0 THEN <<>>
                      ELSE list_expired_tiles(status, wall.marked, cutoff, limit)
       IN  /\ sweep' = [calls |-> sweep.calls + 1, ttl_s |-> ttl_s,
                        cutoff |-> IF ttl_s <= 0 THEN 0 ELSE cutoff,
                        result |-> IF expired = <<>> THEN "0" ELSE "deleted"]
           /\ IF expired = <<>>
              THEN UNCHANGED <<status, tables>>
              ELSE /\ tables' = [n \in TableNames |-> delete_where(tables[n], cutoff)]
                   /\ status' = delete_tiles(status, Range(expired))
    /\ UNCHANGED wall
    /\ UNCHANGED besideSweep

ExpiryNext ==
    \/ WallTick
    \/ \E t \in Tiles : SweepRegister(t)
    \/ \E t \in Tiles : SweepIndex(t)
    \/ \E ttl_s \in TTLs, limit \in Limits : ExpirySweep(ttl_s, limit)

\* the TTL sweep, a registry that lists its expired tiles supposed
ExpirySpec == SweepInit /\ [][ExpiryNext]_vars

----------------------------------------------------------------------------
Next ==
    \/ \E t \in Tiles : GeneratorWrite(t)
    \/ \E t \in Tiles : IngestPublish(t)
    \/ IngestUpsert
    \/ SchedFetch
    \/ SchedClaim
    \/ SchedPublish
    \/ SchedMarkFailed
    \/ SchedCrash
    \/ \E w \in Workers : WReceive(w)
    \/ \E w \in Workers : WIdleFlush(w)
    \/ \E w \in Workers : WLoad(w)
    \/ \E w \in Workers : WEmbed(w)
    \/ \E w \in Workers : WUpsert(w)
    \/ \E w \in Workers : WFinish(w)
    \/ \E w \in Workers : WCrash(w)

Spec == Init /\ [][Next]_vars

\* The worker's loop runs on, the scheduler's job is fired every interval and
\* the manifest ingest runs to its end; crashes, inputs and failing upserts
\* are not forced.
Fairness ==
    /\ \A w \in Workers :
          /\ WF_vars(WReceive(w))
          /\ WF_vars(WIdleFlush(w))
          /\ WF_vars(WLoad(w))
          /\ WF_vars(WEmbed(w))
          /\ WF_vars(WUpsert(w))
          /\ WF_vars(WFinish(w))
    /\ WF_vars(IngestUpsert)
    /\ WF_vars(SchedFetch)
    /\ WF_vars(SchedClaim)
    /\ WF_vars(SchedPublish)
    /\ WF_vars(SchedMarkFailed)

FairSpec == Spec /\ Fairness

----------------------------------------------------------------------------
(* Properties *)

\* the step acks delivery m of worker w: the broker forgets it
Acked(w, m) ==
    /\ m \in Range(unacked[w])
    /\ m \notin Range(unacked'[w])
    /\ m \notin Range(queue')

\* every table of the items of the batch has been upserted
AllUpserted(w) == TablesOfItems(items[w]) \subseteq upserted[w]

\* the rows of tile t in its embedder's vector table
RowsOfTile(t) ==
    LET tbl == tables["tiles_" \o embedder_model(t)]
    IN  {i \in 1..Len(tbl) : tbl[i].tile_id = t /\ tbl[i].image_id = image_id(t)}

\* nothing is queued, delivered or batched
Quiescent ==
    /\ queue = <<>>
    /\ \A w \in Workers : unacked[w] = <<>> /\ batch[w] = <<>> /\ wpc[w] = "consume"

\* C1: an envelope of a loaded and embedded tile is acked, and its tile set to
\* indexed, only in a step taken after vectordb.upsert returned for every
\* table of the batch; a step that leaves the upsert loop without finishing it
\* (the upsert raised) acks no such envelope and marks no such tile indexed.
C1_AckAndIndexedOnlyAfterUpsert ==
    [][\A w \in Workers :
          /\ \A m \in Range(items[w]) : Acked(w, m) => AllUpserted(w)
          /\ \A t \in TilesOf(items[w]) :
                (status'[t] = INDEXED /\ status[t] # INDEXED) => AllUpserted(w)
          /\ (wpc[w] = "upsert" /\ wpc'[w] = "consume") =>
                /\ \A m \in Range(items[w]) : ~Acked(w, m)
                /\ \A t \in TilesOf(items[w]) : status'[t] = INDEXED => status[t] = INDEXED
      ]_vars

\* a tile was indexed and acked after its upsert, and another delivery is
\* held unacked by a worker whose upsert raised
C1_Witness ==
    \E w \in Workers, t \in Tiles :
       /\ status[t] = INDEXED
       /\ RowsOfTile(t) # {}
       /\ \E m \in Range(unacked[w]) :
             /\ status[m.tile_id] = WAITING_FOR_INDEX
             /\ m \notin Range(batch[w]) \cup Range(items[w])

\* C2: no step of the scheduler or of a worker moves a tile out of FAILED (no
\* edge of the state machine leaves FAILED; a generator write registers the
\* tile anew).
C2_FailedNeverLeft ==
    [][\A t \in Tiles :
          (status[t] = FAILED /\ status'[t] # FAILED) =>
              (registered'[t] # registered[t] \/ ingest' # ingest)
      ]_vars

\* C3: each vector table holds at most one row per image_id.
C3_OneRowPerImageId ==
    \A n \in TableNames :
       \A i, j \in 1..Len(tables[n]) :
          tables[n][i].image_id = tables[n][j].image_id => i = j

\* C4: a tile whose status is INDEXED has a row of its own in the vector
\* table of its embedder.
C4_IndexedHasRow ==
    \A t \in Tiles : status[t] = INDEXED => RowsOfTile(t) # {}

\* C5: once the redelivered messages of a batch lost in a worker crash before
\* the upsert are worked off, a tile of that batch that is INDEXED has exactly
\* one vector row (the final state of the crash-free run).
C5_CrashedBatchConverges ==
    Quiescent =>
       \A m \in crashedBatch :
          status[m.tile_id] = INDEXED => Cardinality(RowsOfTile(m.tile_id)) = 1

\* C6: the step in which the status write of the tick's tile returns leaves
\* the tile IN_PROCESS and publishes nothing; a message is published only for
\* the tile whose write returned; the scheduler writes a status only in the
\* claim step and after a publish that raised, so a publish that returned
\* leaves the status as it is.
C6_ClaimBeforePublish ==
    [][/\ (claimOk' /\ ~claimOk) =>
             /\ status'[Head(schedTiles)] = IN_PROCESS
             /\ published' = published
       /\ \A t \in Tiles :
             schedPublished'[t] # schedPublished[t] =>
                 /\ claimOk
                 /\ t = Head(schedTiles)
                 /\ status' = status
       /\ (<<schedPc, schedTiles>> # <<schedPc', schedTiles'>> /\ status' # status) =>
             schedPc \in {"claim", "failed"}
      ]_vars

\* the scheduler published a tile and the tile is IN_PROCESS after the tick
C6_Witness ==
    \E t \in Tiles :
       /\ schedPublished[t] = 1
       /\ status[t] = IN_PROCESS
       /\ schedPc = "idle"
       /\ \E i \in 1..Len(queue) : queue[i].tile_id = t /\ queue[i].schema = "TileResponse"

\* C7: a tile the generator registered once is published by the scheduler at
\* most once, whatever the crashes of the scheduler.
C7_PublishedAtMostOnce ==
    \A t \in Tiles : registered[t] = 1 => schedPublished[t] <= 1

\* the scheduler crashed in a tick, was started again and published a tile
\* registered once
C7_Witness ==
    \E t \in Tiles :
       /\ registered[t] = 1
       /\ schedPublished[t] = 1
       /\ schedCrashes >= 1

MessageIds == 1..MaxEvents

\* delivery m is unacked at a worker that has dropped it from its batch
Held(m) ==
    \E w \in Workers :
       /\ m \in Range(unacked[w])
       /\ m \notin Range(batch[w]) \cup Range(items[w])

\* C8: a message whose batch failed at the vector upsert (its tile is left at
\* "waiting for index", the envelope unacked) is eventually redelivered: it
\* goes back to the queue or into a batch of a worker.
C8_FailedUpsertRedelivered ==
    \A n \in MessageIds, t \in Tiles :
       LET m == Message(n, t, "IndexRequest")
       IN  (Held(m) /\ status[t] = WAITING_FOR_INDEX) ~> ~Held(m)

\* C9: a message whose payload failed the IndexRequest validation is acked
\* (neither queued nor delivered again) and its tile is FAILED.
C9_PoisonAckedAndFailed ==
    \A m \in rejected :
       /\ m \notin Range(queue)
       /\ \A w \in Workers : m \notin Range(unacked[w])
       /\ status[m.tile_id] = FAILED

Edge(a, b) ==
    \/ a = READY_FOR_INDEXING /\ b = IN_PROCESS
    \/ a = IN_PROCESS /\ b = WAITING_FOR_EMBEDDING
    \/ a = WAITING_FOR_EMBEDDING /\ b = WAITING_FOR_INDEX
    \/ a = WAITING_FOR_INDEX /\ b = INDEXED
    \/ a \notin {INDEXED, FAILED} /\ b = FAILED
    \/ a = INDEXED /\ b = READY_FOR_INDEXING

\* C11: a status update request (single or batch) that asks for a transition
\* of a registered tile that is neither an edge of the state machine nor a
\* repetition is answered InvalidState and leaves the stored status unchanged.
C11_IllegalTransitionRejected ==
    [][(regResp' # regResp /\ regResp'.op \in {"update_status", "batch_update_status"}) =>
          \A t \in regResp'.tile_ids :
             (status[t] # NoRow /\ status[t] # regResp'.status
                /\ ~Edge(status[t], regResp'.status)) =>
                   /\ status'[t] = status[t]
                   /\ regResp'.result = "InvalidState"
      ]_vars

\* the string of an Optional[str] that is not None
TheString(opt) == CHOOSE x \in opt : TRUE

\* C12: an embedder_model 'backend:model' is routed to the queue of the exact
\* backend:model entry when there is one, otherwise to the queue of the
\* backend=queue entry of that backend when there is one, otherwise to the
\* default queue; a missing or blank embedder_model is routed to the default
\* queue.
C12_RoutesBySpecificity ==
    routed.state = "routed" =>
       IF routed.embedder_model = {} \/ strip(TheString(routed.embedder_model)) = <<>>
       THEN routed.queue = queue_config.default_queue
       ELSE
         LET em == strip(TheString(routed.embedder_model)) IN
         Contains(em, _MODEL_SEPARATOR) =>
            LET backend == strip(split1(em, _MODEL_SEPARATOR)[1])
                model == strip(split1(em, _MODEL_SEPARATOR)[2])
            IN
            (backend # <<>> /\ model # <<>>) =>
               routed.queue =
                  IF <<backend, model>> \in DOMAIN queue_config.by_backend_model
                  THEN queue_config.by_backend_model[<<backend, model>>]
                  ELSE IF backend \in DOMAIN queue_config.by_backend
                  THEN queue_config.by_backend[backend]
                  ELSE queue_config.default_queue

\* a mapping of the form backend=queue, with a backend and a queue
IsBackendEntry(raw_mapping) ==
    LET mapping == strip(raw_mapping) IN
    /\ Contains(mapping, _MAPPING_SEPARATOR)
    /\ strip(split1(mapping, _MAPPING_SEPARATOR)[1]) # <<>>
    /\ strip(split1(mapping, _MAPPING_SEPARATOR)[2]) # <<>>
    /\ ~Contains(split1(mapping, _MAPPING_SEPARATOR)[1], _MODEL_SEPARATOR)

BackendOf(raw_mapping) == strip(split1(strip(raw_mapping), _MAPPING_SEPARATOR)[1])
QueueOf(raw_mapping) == strip(split1(strip(raw_mapping), _MAPPING_SEPARATOR)[2])

\* the backend=queue entries of a configuration string, in the listed order
BackendEntries(raw) == SelectSeq(split(raw, _CONFIG_DELIMITER), IsBackendEntry)

\* the configuration string without its empty entries
WithoutEmpty(raw) ==
    SelectSeq(split(raw, _CONFIG_DELIMITER), LAMBDA e : strip(e) # <<>>)

\* C13: for a configuration string with at least one backend=queue entry, the
\* parsed configuration is that of the string without its empty entries, the
\* queue of a backend is the queue of its last entry, and the default queue
\* is the queue of the first listed backend=queue entry.
C13_ParseFirstListedIsDefault ==
    (queue_config # Unparsed /\ BackendEntries(embedder_queues) # <<>>) =>
       LET entries == BackendEntries(embedder_queues) IN
       /\ queue_config.state = "ok"
       /\ queue_config = _parse_embedder_queues(Join(WithoutEmpty(embedder_queues)))
       /\ \A i \in 1..Len(entries) :
             (\A j \in (i + 1)..Len(entries) : BackendOf(entries[j]) # BackendOf(entries[i]))
                => queue_config.by_backend[BackendOf(entries[i])] = QueueOf(entries[i])
       /\ queue_config.default_queue = QueueOf(entries[1])


\* C14: no two executions of run_once are going on at once, and a fire of the
\* trigger during an execution is skipped: it starts no execution.
C14_TicksNeverOverlap ==
    /\ [](Cardinality(Running) <= 1)
    /\ [][(aps'.fired # aps.fired /\ Running # {}) =>
             /\ aps'.skipped = aps.skipped + 1
             /\ run' = run]_vars

C14_Witness ==
    /\ aps.skipped > 0
    /\ \E i \in Instances : run[i].pc = "process"

\* C15: when run_once has returned it has not raised, every tile it fetched
\* was processed, the tiles whose processing raised were handed to
\* _mark_tile_failed, and the value returned is the number of tiles whose
\* processing returned.
C15_TileFailuresIsolated ==
    \A i \in Instances :
       run[i].pc = "returned" =>
          /\ ~run[i].raised
          /\ run[i].processed = run[i].fetched
          /\ run[i].marked = run[i].fetched \ run[i].ok
          /\ run[i].result = Cardinality(run[i].ok)

\* the first tile of a tick failed and the second was published
C15_Witness ==
    \E i \in Instances :
       /\ run[i].pc = "returned"
       /\ run[i].result = 1
       /\ \E t \in run[i].marked : \E u \in run[i].ok : t < u

C17_SameEnvelopeInterface ==
    /\ bus.error # "TypeError"
    /\ \A e \in client.held : {"ack", "nack"} \subseteq e.ops

\* C18: a consumer of several queues does not take two messages in a row
\* from one queue while another of its queues has a message ready.
C18_RoundRobinOverQueues ==
    [][(/\ Len(bus.queues) > 1
        /\ Len(broker'.taken) = Len(broker.taken) + 1
        /\ broker.taken # <<>>
        /\ broker'.taken[Len(broker'.taken)] = broker.taken[Len(broker.taken)])
          => \A q \in Range(bus.queues) \ {broker.taken[Len(broker.taken)]} :
                broker.ready[q] = <<>>
      ]_vars

\* C19: a call of ack or nack on an envelope when the connection is closed
\* returns without raising and changes nothing at the broker.
C19_CallsAfterCloseAreNoOps ==
    [][(client'.calls # client.calls /\ ~bus.open) =>
          /\ ~client'.raised
          /\ broker' = broker
      ]_vars

\* C20: at the end of an upserted batch the worker goes back to consuming
\* whatever the "indexed" writes returned. With
\* require_index_status_before_ack the envelopes of a table whose write
\* failed stay unacked and every acked envelope has its tile, when the tile
\* has a row, indexed; without it every envelope of the batch is acked.
C20_AckWaitsForIndexedWrite ==
    [][\A w \in Workers :
          (wpc[w] = "finish" /\ events' = events /\ ingest' = ingest /\ wpc' # wpc) =>
             /\ wpc'[w] = "consume"
             /\ \A i \in 1..Len(items[w]) :
                   LET m == items[w][i]
                       failed == _resolve_table_name(m) \in index_failed'
                   IN  IF settings.require_index_status_before_ack
                       THEN /\ failed => m \in Range(unacked'[w])
                            /\ ~failed => Acked(w, m)
                            /\ (Acked(w, m) /\ status[_tile_id_for_req(m)] # NoRow)
                                  => status'[_tile_id_for_req(m)] = INDEXED
                       ELSE Acked(w, m)
      ]_vars

\* a batch of two tables ended with one write failed and its envelope held
C20_Witness ==
    /\ settings.require_index_status_before_ack
    /\ \E w \in Workers :
          /\ wpc[w] = "consume"
          /\ Len(unacked[w]) = 1
          /\ index_failed # {}
          /\ \E t \in Tiles : status[t] = INDEXED

\* C21: the row of a tile carries an indexed_at if and only if its status is
\* INDEXED.
C21_IndexedAtIffIndexed ==
    \A t \in Tiles :
       status[t] # NoRow =>
          (RowColumn(status, t, "indexed_at") # {} <=> status[t] = INDEXED)

\* tile t was marked indexed at or before the cutoff and is still INDEXED
Expired(t, cutoff) ==
    /\ status[t] = INDEXED
    /\ \E at \in wall.marked[t] : at <= cutoff

\* the rows of tile t in the vector tables tbls
VectorRowsOf(tbls, t) ==
    {<<n, i>> \in TableNames \X (1..Cardinality(Tiles)) :
        i <= Len(tbls[n]) /\ tbls[n][i].tile_id = t}

\* C22: a TTL sweep with a positive ttl_s removes every tile indexed at or
\* before now - ttl_s from the registry and its rows from every vector table,
\* and leaves the tiles and rows newer than the cutoff as they were; a sweep with
\* ttl_s <= 0 deletes nothing.
C22_SweepRemovesExpired ==
    [][sweep'.calls # sweep.calls =>
          IF sweep'.ttl_s <= 0
          THEN UNCHANGED <<status, tables>>
          ELSE \A t \in Tiles :
                  IF Expired(t, sweep'.cutoff)
                  THEN status'[t] = NoRow /\ VectorRowsOf(tables', t) = {}
                  ELSE /\ status'[t] = status[t]
                       /\ VectorRowsOf(tables', t) = VectorRowsOf(tables, t)]_vars

\* the call answered in the next state opens table n with embedding_dim
Opens(n) ==
    /\ vresp'.seq # vresp.seq
    /\ vresp'.op \in {"get_or_create_table", "upsert_rows", "POST upsert"}
    /\ vresp'.table_name = n
    /\ vresp'.embedding_dim \in Dims

\* C23: opening an existing vector table with another embedding dimension
\* than the table's fails with SchemaConflict, and the dimension of a table
\* never changes.
C23_DimensionConflictRejected ==
    [][\A n \in TableNames :
          _table_exists(lance, n) =>
             /\ _table_exists(lance', n) /\ lance'[n].dim = lance[n].dim
             /\ Opens(n) /\ vresp'.embedding_dim # lance[n].dim
                   => vresp'.result = "SchemaConflict" /\ lance' = lance]_vars

\* C24: an upsert with an empty rows list returns 0 and creates no table,
\* through POST /tables/{n}/upsert and through LanceDBAdapter.upsert_rows.
C24_EmptyUpsertCreatesNoTable ==
    [][/\ vresp'.seq # vresp.seq
       /\ vresp'.op \in {"upsert_rows", "POST upsert"}
       /\ vresp'.rows = <<>>
       => /\ vresp'.result \in {"0", "200 inserted=0"}
          /\ \A n \in TableNames : _table_exists(lance', n) = _table_exists(lance, n)]_vars

\* C25: POST /tables/{n}/search for a table that does not exist answers 404,
\* creates no table and changes no state.
C25_SearchMissingTableIs404 ==
    [][/\ vresp'.seq # vresp.seq
       /\ vresp'.op = "POST search"
       /\ ~_table_exists(lance, vresp'.table_name)
       => vresp'.result = "404" /\ lance' = lance]_vars

\* the rows of tile_id t in the tiles table
RowsOf(rows, t) == {i \in 1..Len(rows) : rows[i].tile_id = t}

\* the last tile_data of tile t in the tiles of a call
LastWrite(tiles, t) ==
    tiles[CHOOSE i \in 1..Len(tiles) :
             /\ tiles[i].tile_id = {t}
             /\ \A j \in (i + 1)..Len(tiles) : tiles[j].tile_id # {t}]

\* C26: after any sequence of create_tile and upsert_tiles calls the tiles
\* table holds exactly one row per tile_id written; a tile written without a
\* status has status READY_FOR_INDEXING, a tile written with a status has the
\* given status.
C26_OneRowPerTileDefaultStatus ==
    /\ [](\A t \in Tiles : Cardinality(RowsOf(tiles_rows, t)) <= 1)
    /\ [][/\ tiles_call'.seq # tiles_call.seq
          /\ tiles_call'.result # ValueError
          => \A t \in Tiles :
                IF \E i \in 1..Len(tiles_call'.tiles) : tiles_call'.tiles[i].tile_id = {t}
                THEN LET given == LastWrite(tiles_call'.tiles, t).status
                     IN  \E i \in 1..Len(tiles_rows') :
                            /\ RowsOf(tiles_rows', t) = {i}
                            /\ tiles_rows'[i].status \in
                                  (IF given = {} THEN {READY_FOR_INDEXING} ELSE given)
                ELSE RowsOf(tiles_rows', t) = RowsOf(tiles_rows, t)]_vars

\* tile 1 was written twice, the second time with a status, and has one row
C26_Witness ==
    /\ tiles_call.op = "upsert_tiles"
    /\ tiles_call.result = ReturnedNone
    /\ Len(tiles_call.tiles) = 2
    /\ tiles_call.tiles[1] = [tile_id |-> {1}, status |-> {}]
    /\ tiles_call.tiles[2] = [tile_id |-> {1}, status |-> {INDEXED}]
    /\ Len(tiles_rows) = 2
    /\ \E i \in 1..2 : tiles_rows[i] = [tile_id |-> 1, status |-> INDEXED]

\* C27: two keys have the same canonical tile id if and only if they are
\* equal in source, z, x, y and variant, and equal ids have equal hashes.
C27_TileIdInjective ==
    tile_ids # <<>> =>
       /\ tile_ids[1].tile_id = tile_ids[2].tile_id <=> tile_keys[1] = tile_keys[2]
       /\ tile_ids[1].tile_id = tile_ids[2].tile_id => tile_ids[1].hash = tile_ids[2].hash

\* the workers that hold an unacked envelope of tile t
HoldersOf(t) ==
    {w \in WorkerPair : \E i \in 1..Len(unacked[w]) : unacked[w][i].tile_id = t}

\* C28: at any time at most one worker holds an unacked envelope of a given
\* tile.
C28_OneHolderPerTile == \A t \in Tiles : Cardinality(HoldersOf(t)) <= 1

C31_SeenImageIdNotLoadedAgain ==
    \A w \in Workers : \A i, j \in 1..Len(items[w]) :
        i # j => image_id(_tile_id_for_req(items[w][i])) #
                 image_id(_tile_id_for_req(items[w][j]))

\* C32: before embedding, the worker looks the image_ids of the batch up in the
\* target table; an id already present is acked without embedding or writing
\* and its row stays as it is. As a step property: no step replaces or removes
\* a row that a vector table already holds.
C32_PresentRowsLeftUnchanged ==
    [][\A n \in TableNames : \A i \in 1..Len(tables[n]) :
           \E j \in 1..Len(tables'[n]) : tables'[n][j] = tables[n][i]]_vars

\* C33, first part: after a shutdown signal the worker takes no new envelope.
C33_NoNewEnvelopes ==
    [][\A w \in Workers :
          stop[w].signal # "none" => Len(unacked'[w]) <= Len(unacked[w])]_vars

\* C33, second part: a worker that has exited on a signal has called
\* process_batch for its pending batch once.
C33_PendingProcessedOnce ==
    \A w \in Workers :
        stop[w].exited /\ stop[w].pending # <<>> => stop[w].calls = 1

\* C33, third part: once the worker has exited, every envelope of the pending
\* batch is back on the queue, or its row is in its vector table.
C33_PendingAckedAfterUpsertOrRequeued ==
    \A w \in Workers :
        stop[w].exited =>
            \A m \in Range(stop[w].pending) :
                \/ m \in Range(queue)
                \/ Row(m) \in Range(tables[_resolve_table_name(m)])

\* C33, fourth part: a worker that got a shutdown signal exits.
C33_SignalLeadsToExit ==
    \A w \in Workers : (stop[w].signal # "none") ~> stop[w].exited

\* C33: on a shutdown signal the worker stops taking new envelopes, processes
\* the pending batch exactly once, then shuts the I/O pool down and exits;
\* every envelope of the pending batch ends acked after a successful upsert or
\* unacked for redelivery.
C33_ShutdownDrainsPendingBatch ==
    /\ C33_NoNewEnvelopes
    /\ []C33_PendingProcessedOnce
    /\ []C33_PendingAckedAfterUpsertOrRequeued
    /\ C33_SignalLeadsToExit

\* C34: when the upsert falls back to delete + add, a concurrent reader never
\* sees the table with the matched rows deleted and the new rows not yet
\* inserted: what a read returns is the table as it was before the upsert
\* or as it is after it.
C34_ReaderNeverSeesGap ==
    \/ fallback.seen.rows = fallback.seen.before
    \/ fallback.seen.rows = upsert_rows(fallback.seen.before, fallback.seen.adding)

\* C35: every envelope taken into a batch is acked or returned to the broker
\* when the batch is processed, also when the embedding of a group raises.
\* As an invariant: a worker that is back in its consume loop, its connection
\* open, holds no unacked envelope that is not in its batch.
C35_NoUnackedEnvelopeOutsideBatch ==
    \A w \in Workers :
        wpc[w] = "consume" => Range(unacked[w]) \subseteq Range(batch[w])

\* C36: every status that the scheduler, the daemon, the manifest manager and
\* the worker write to the registry is a member of TileStatus, so a tile read
\* back through the registry service reports the status last written for it.
C36_WrittenStatusInTileStatus ==
    \A t \in Tiles :
        status[t] # NoRow =>
            /\ status[t] \in TileStatus
            /\ _row_to_response([tile_id |-> t, status |-> status[t]]).status = status[t]

\* the messages on the bus: queued, or delivered and not yet acked
OnBus(q, u) == Range(q) \cup UNION {Range(u[w]) : w \in Workers}

\* C37: a tile that the scheduler marks FAILED after an error in
\* _process_single_tile has no message on the bus. As a step property: after
\* the step of a tick that writes FAILED for the tile it is at, no message that
\* the scheduler published for that tile is queued or unacked.
C37_FailedTileHasNoMessage ==
    [][\A t \in Tiles :
          ( /\ schedPc \in {"claim", "failed"}
            /\ schedTiles # <<>>
            /\ Head(schedTiles) = t
            /\ schedTiles' = Tail(schedTiles)
            /\ schedCrashes' = schedCrashes
            /\ status'[t] = FAILED )
          => ~\E m \in OnBus(queue', unacked') :
                 _tile_id_for_req(m) = t /\ m.schema = "TileResponse"]_vars

\* the registry write after the publishing: the step that ends an
\* ingest_manifest call or a publish_ready_tiles call
WritesAfterPublish ==
    \/ ingest # {} /\ ingest' = {}
    \/ daemon' # daemon

\* C38: the registry write that follows the publishing, in publish_ready_tiles
\* and ingest_manifest, never overwrites the status a worker wrote after it
\* consumed the message: a tile marked indexed stays indexed; and the daemon
\* publishes a ready tile at most once across its calls.
C38_WriteAfterPublishKeepsIndexed ==
    /\ [][WritesAfterPublish =>
             \A t \in Tiles : status[t] = INDEXED => status'[t] = INDEXED]_vars
    /\ [](\A t \in Tiles : daemon.published[t] <= 1)

====
